---- MODULE Spec2Model ----
(***************************************************************************)
(* Model of the ValutaTrade Hub parser service: RatesUpdater.run_update    *)
(* (parser_service/updater.py) over RatesStorage                           *)
(* (parser_service/storage.py), with the two files it keeps: the rates     *)
(* cache and the history log.                                              *)
(***************************************************************************)
EXTENDS Integers, Sequences, FiniteSets, TLC

\* ------------------------------------------------------------------ bounds
MaxTime == 1       \* wall-clock readings are 0..MaxTime
MaxCalls == 1      \* calls that write, made in one behaviour
MaxHistory == 2    \* records the history log may hold

Times == 0..MaxTime

\* ------------------------------------------------------------ timestamps
\* The value found under "updated_at" / "last_refresh": JSON null (or a
\* missing key), a string that datetime.fromisoformat rejects, or an ISO
\* string of wall time t, either naive or with the +00:00 suffix.
NoneTs == [kind |-> "none", t |-> 0, tz |-> "-"]
BadTs == [kind |-> "bad", t |-> 0, tz |-> "-"]
IsoTs(t, tz) == [kind |-> "iso", t |-> t, tz |-> tz]
TsValues == {NoneTs, BadTs} \cup {IsoTs(t, tz) : t \in Times, tz \in {"naive", "utc"}}

\* datetime.now(timezone.utc).isoformat(): always an aware ISO string.
NowIso(t) == IsoTs(t, "utc")

\* The instant parse_iso_datetime returns, NoTime standing for None.
NoTime == -1
parse_iso_datetime(value) ==
    IF value.kind # "iso" THEN NoTime   \* not a str, or ValueError
    ELSE value.t                        \* a naive value is taken as UTC

\* -------------------------------------------------------------- currency
Pairs == {"BTC_USD", "EUR_USD"}
\* pair.split("_", 1)
SplitPair(pair) ==
    CASE pair = "BTC_USD" -> <<"BTC", "USD">>
      [] pair = "EUR_USD" -> <<"EUR", "USD">>

\* -------------------------------------------------------------- clients
\* RatesUpdater.clients, in iteration order, by source_name.
Clients == <<"coingecko", "exchangerate">>
\* The rate a client's response carries for a pair when the wall clock
\* reads t: the two providers quote different prices, which move with time.
QuotedRate(source, t) == (IF source = "coingecko" THEN 10 ELSE 20) + t
\* meta.api_timestamp of a client's payloads (None for CoinGecko).
ApiTimestamp(source) == IF source = "exchangerate" THEN BadTs ELSE NoneTs

\* name.lower(), then SOURCE_ALIASES
Lower(name) == IF name = "CoinGecko" THEN "coingecko" ELSE name
_normalize_source(name) ==
    IF Lower(name) = "exchangerate-api" THEN "exchangerate" ELSE Lower(name)

\* The active_sources arguments tried; {} stands for None (and for any
\* other falsy value): every client is selected.
ActiveChoices ==
    { {}, {"exchangerate-api"}, {"CoinGecko", "nope"}, {"nope"} }

Selected(active, source) ==
    LET sources == { _normalize_source(n) : n \in active }
    IN  ~(sources # {} /\ _normalize_source(source) \notin sources)

\* ----------------------------------------------------------------- files
RatesPath == "rates.json"
HistoryPath == "exchange_rates.json"
TmpPathSame(path) == path
\* path.with_suffix(".tmp")
TmpPath(path) ==
    IF path = "rates.json" THEN "rates.tmp" ELSE "exchange_rates.tmp"
Paths == {RatesPath, HistoryPath, TmpPath(RatesPath), TmpPath(HistoryPath)}

\* JSON documents.  An object is the cache shape; pk says what its "pairs"
\* key holds: a dict, null, or nothing (the key is missing).
EmptyPairs == [p \in {} |-> NoneTs]
JsonObject(pk, pairs, last_refresh) ==
    [kind |-> "object", pk |-> pk, pairs |-> pairs,
     last_refresh |-> last_refresh, items |-> <<>>]
JsonArray(items) ==
    [kind |-> "array", pk |-> "missing", pairs |-> EmptyPairs,
     last_refresh |-> NoneTs, items |-> items]

\* A file: absent, or as much of the text json.dump produces for doc as
\* has reached it: none of it after open("w"), a part of it, or all of it.
\* The text parses only when it is complete.
Absent == [exists |-> FALSE, doc |-> JsonArray(<<>>), text |-> "empty"]
FileOf(doc, text) == [exists |-> TRUE, doc |-> doc, text |-> text]
\* json.dump writes the text in pieces: the state after one more piece.
Dumped(text) == IF text = "empty" THEN "partial" ELSE "complete"

\* ------------------------------------------------------------- storage
EmptyCache == JsonObject("dict", EmptyPairs, NoneTs)

\* RatesStorage.read_rates: what the call returns.  json.load returns the
\* document whatever its shape; only a missing file and a JSONDecodeError
\* give the empty cache.
read_rates(file) ==
    IF ~file.exists THEN EmptyCache
    ELSE IF file.text # "complete" THEN EmptyCache
    ELSE file.doc

\* RatesStorage._read_history
_read_history(file) ==
    IF ~file.exists THEN <<>>
    ELSE IF file.text # "complete" THEN <<>>
    ELSE IF file.doc.kind = "array" THEN file.doc.items
    ELSE <<>>

\* tmp_path.replace(path): the rename
ReplacedNot(files, src, dst) == files
Replaced(files, src, dst) ==
    [p \in Paths |->
        IF p = dst THEN files[src]
        ELSE IF p = src THEN Absent ELSE files[p]]

\* history.extend(records)
ExtendedAnew(history, records) == records
Extended(history, records) == history \o records

\* ------------------------------------------------------------- updater
Entry(rate, updated_at, source) ==
    [rate |-> rate, updated_at |-> updated_at, source |-> source]

is_newer_or_equal(new_entry, old_entry) ==
    LET new_ts == parse_iso_datetime(new_entry.updated_at)
        old_ts == parse_iso_datetime(old_entry.updated_at)
    IN  IF new_ts = NoTime THEN FALSE
        ELSE IF old_ts = NoTime THEN TRUE
        ELSE new_ts >= old_ts
is_newer_both_known(new_entry, old_entry) ==
    LET new_ts == parse_iso_datetime(new_entry.updated_at)
        old_ts == parse_iso_datetime(old_entry.updated_at)
    IN  IF new_ts = NoTime THEN FALSE
        ELSE IF old_ts = NoTime THEN FALSE
        ELSE new_ts > old_ts
is_newer(new_entry, old_entry) ==
    LET new_ts == parse_iso_datetime(new_entry.updated_at)
        old_ts == parse_iso_datetime(old_entry.updated_at)
    IN  IF new_ts = NoTime THEN FALSE
        ELSE IF old_ts = NoTime THEN TRUE
        ELSE new_ts > old_ts

\* The loop over new_entries that updates existing_pairs in place.
MergePairsNewOnly(existing_pairs, entries) ==
    [p \in DOMAIN entries |->
        IF p \notin DOMAIN existing_pairs
           \/ is_newer(entries[p], existing_pairs[p])
        THEN entries[p]
        ELSE existing_pairs[p]]
MergePairs(existing_pairs, entries) ==
    [p \in (DOMAIN existing_pairs) \cup (DOMAIN entries) |->
        IF p \in DOMAIN entries
           /\ (p \notin DOMAIN existing_pairs
               \/ is_newer(entries[p], existing_pairs[p]))
        THEN entries[p]
        ELSE existing_pairs[p]]

\* One history record, as built in the loop over rates.items().
HistoryRecordSwapped(pair, rate, updated_at, source) ==
    [id |-> <<pair, updated_at>>,
     from_currency |-> SplitPair(pair)[2],
     to_currency |-> SplitPair(pair)[1],
     rate |-> rate,
     timestamp |-> IF ApiTimestamp(source).kind = "none"
                   THEN updated_at ELSE ApiTimestamp(source),
     source |-> source,
     meta |-> [api_timestamp |-> ApiTimestamp(source)]]
HistoryRecord(pair, rate, updated_at, source) ==
    [id |-> <<pair, updated_at>>,
     from_currency |-> SplitPair(pair)[1],
     to_currency |-> SplitPair(pair)[2],
     rate |-> rate,
     timestamp |-> IF ApiTimestamp(source).kind = "none"
                   THEN updated_at ELSE ApiTimestamp(source),
     source |-> source,
     meta |-> [api_timestamp |-> ApiTimestamp(source)]]

\* rates.items() is walked in the order the client built the mapping.
PairOrder == <<"BTC_USD", "EUR_USD">>
RECURSIVE RecordsFrom(_, _, _, _, _)
RecordsFrom(i, pairs, rate, updated_at, source) ==
    IF i > Len(PairOrder) THEN <<>>
    ELSE (IF PairOrder[i] \in pairs
          THEN <<HistoryRecord(PairOrder[i], rate, updated_at, source)>>
          ELSE <<>>)
         \o RecordsFrom(i + 1, pairs, rate, updated_at, source)

\* new_entries after the loop over rates.items() of one client.
PutEntries(entries, pairs, rate, updated_at, source) ==
    [p \in (DOMAIN entries) \cup pairs |->
        IF p \in pairs THEN Entry(rate, updated_at, source) ELSE entries[p]]

\* if not new_entries
NothingCollectedNever(entries) == FALSE
NothingCollected(entries) == entries = EmptyPairs

\* What run_update does with the cache it read, once new_entries is not
\* empty: "AttributeError" when current_data has no .get (it is not a dict)
\* or its "pairs" value has none; otherwise the payload it writes.
MergeOutcome(current_data) ==
    IF current_data.kind # "object" THEN "AttributeError"
    ELSE IF current_data.pk = "null" THEN "AttributeError"
    ELSE "ok"
ExistingPairs(current_data) ==
    IF current_data.pk = "dict" THEN current_data.pairs ELSE EmptyPairs
MergedPayload(current_data, entries, now) ==
    JsonObject("dict", MergePairs(ExistingPairs(current_data), entries),
               NowIso(now))

\* ---------------------------------------------------------------- state
VARIABLES
    fs,               \* path -> file
    pc,               \* where the running call stands ("idle": none runs)
    op,               \* the public operation that is running
    ret,              \* where _atomic_write returns to
    wpath, wdata,     \* _atomic_write's arguments
    active,           \* run_update's active_sources
    idx,              \* position of the loop over self.clients
    new_entries, history_records, errors, total_rates,
    payload,          \* run_update's payload / write_rates' argument
    calls,            \* calls started so far
    result,           \* how the last finished call ended
    prev,             \* how the call before a read_rates() ended
    pre,              \* the files when the last call started
    trace             \* the fetch_rates calls of the last run_update

\* The core's side (core/usecases.py over infra/database.py): the files
\* DatabaseManager reads, the last call of a use case and how it ended.
VARIABLES
    db,               \* DatabaseManager's files: rates.json, portfolios.json
    call,             \* the use case called last, with its arguments
    out               \* what that call returned or raised

\* The scheduler's side (parser_service/scheduler.py) and a Wallet object
\* (core/models.py).
VARIABLES
    sched,            \* where run_scheduler stands, and its arguments
    cycle,            \* the run_update the scheduler is in
    wallet_obj        \* a Wallet: its balance, the last call and its end

updater == <<fs, pc, op, ret, wpath, wdata, active, idx, new_entries,
             history_records, errors, total_rates, payload, calls, result,
             prev, pre, trace>>
valuation == <<db, call, out>>
service == <<sched, cycle>>
vars == <<fs, pc, op, ret, wpath, wdata, active, idx, new_entries,
          history_records, errors, total_rates, payload, calls, result,
          prev, pre, trace, db, call, out, sched, cycle, wallet_obj>>
locals == <<ret, wpath, wdata, active, idx, new_entries, history_records,
            errors, total_rates, payload>>

NoResult ==
    [op |-> "none", status |-> "none", total_rates |-> 0, errors |-> <<>>,
     last_refresh |-> NoneTs, value |-> EmptyCache, arg |-> EmptyCache]
ResultOf(o, status) == [NoResult EXCEPT !.op = o, !.status = status]
NoPrev == [op |-> "none", status |-> "none", arg |-> EmptyCache]

\* No use case of the core has been called, and its files are not there.
NoDb == [rates |-> "absent", portfolios |-> "absent"]
NoCall == [op |-> "none"]
NoOut == [status |-> "none"]
\* run_scheduler has not been called, and no Wallet has been made.
NoSched == [pc |-> "off"]
NoCycle == [step |-> "none"]
NoWallet == [made |-> FALSE]

\* ------------------------------------------------------- initial files
OldEntry(updated_at) == Entry(5, updated_at, "coingecko")
OldRecord == HistoryRecord("BTC_USD", 5, NowIso(0), "coingecko")
InitPairMaps ==
    {EmptyPairs}
    \cup { [p \in {"BTC_USD"} |-> OldEntry(u)] : u \in TsValues }
    \cup { [p \in Pairs |-> OldEntry(NowIso(1))] }
InitRatesFiles ==
    { Absent,
      FileOf(EmptyCache, "partial"),                          \* cut short
      FileOf(JsonArray(<<>>), "complete"),                    \* []
      FileOf(JsonObject("null", EmptyPairs, NoneTs), "complete"),
      FileOf(JsonObject("missing", EmptyPairs, NowIso(1)), "complete") }
    \cup { FileOf(JsonObject("dict", m, NowIso(1)), "complete") :
             m \in InitPairMaps }
InitHistoryFiles ==
    { Absent,
      FileOf(EmptyCache, "complete"),                         \* not a list
      FileOf(JsonArray(<<OldRecord>>), "complete") }

\* A temporary file that a killed writer left behind.
InitTmpFiles == { Absent, FileOf(EmptyCache, "partial") }
InitFiles ==
    { <<r, Absent, Absent>> : r \in InitRatesFiles }
    \cup { <<FileOf(JsonObject("dict", [p \in Pairs |-> OldEntry(NowIso(1))],
                              NowIso(1)), "complete"), h, t>> :
             h \in InitHistoryFiles, t \in InitTmpFiles }

Init ==
    /\ \E f \in InitFiles :
          fs = [p \in Paths |->
                  IF p = RatesPath THEN f[1]
                  ELSE IF p = HistoryPath THEN f[2] ELSE f[3]]
    /\ pc = "idle" /\ op = "none" /\ ret = "idle"
    /\ wpath = RatesPath /\ wdata = EmptyCache
    /\ active = {} /\ idx = 1
    /\ new_entries = EmptyPairs /\ history_records = <<>>
    /\ errors = <<>> /\ total_rates = 0
    /\ payload = EmptyCache
    /\ calls = 0
    /\ result = NoResult
    /\ prev = NoPrev
    /\ pre = fs /\ trace = <<>>
    /\ db = NoDb /\ call = NoCall /\ out = NoOut
    /\ sched = NoSched /\ cycle = NoCycle /\ wallet_obj = NoWallet

ResetLocals ==
    /\ ret' = "idle" /\ wpath' = RatesPath /\ wdata' = EmptyCache
    /\ idx' = 1 /\ UNCHANGED active
    /\ new_entries' = EmptyPairs /\ history_records' = <<>>
    /\ errors' = <<>> /\ total_rates' = 0
    /\ payload' = EmptyCache

\* A call that writes is entered.
Running == ResultOf("none", "running")
Entered ==
    /\ calls' = calls + 1
    /\ prev' = NoPrev
    /\ result' = Running
    /\ pre' = fs /\ trace' = <<>>

\* The running call ends: it returns or raises.
Finish(r) ==
    /\ pc' = "idle" /\ op' = "none"
    /\ result' = r
    /\ ResetLocals
    /\ UNCHANGED <<calls, prev, pre>>

\* --------------------------------------------------------- run_update
HistoryRoom ==
    MaxHistory - Len(_read_history(fs[HistoryPath])) - Len(history_records)

FetchEvent(outcome, pairs, rate, at) ==
    [client |-> idx, outcome |-> outcome, pairs |-> pairs,
     rate |-> rate, at |-> at]

\* run_update(active_sources) is entered.
StartUpdate ==
    /\ UNCHANGED <<valuation, service, wallet_obj>>
    /\ pc = "idle" /\ calls < MaxCalls
    /\ \E a \in ActiveChoices : active' = a
    /\ op' = "run_update" /\ pc' = "fetch" /\ Entered
    /\ idx' = 1 /\ new_entries' = EmptyPairs /\ history_records' = <<>>
    /\ errors' = <<>> /\ total_rates' = 0
    /\ UNCHANGED <<fs, ret, wpath, wdata, payload>>

InLoop == pc = "fetch" /\ idx <= Len(Clients)

\* The client is not selected: continue.
FetchSkip ==
    /\ UNCHANGED <<valuation, service, wallet_obj>>
    /\ InLoop /\ ~Selected(active, Clients[idx])
    /\ idx' = idx + 1
    /\ UNCHANGED <<fs, pc, op, ret, wpath, wdata, active, new_entries,
                   history_records, errors, total_rates, payload, calls,
                   result, prev, pre, trace>>

\* client.fetch_rates() raises ApiRequestError.
FetchFail ==
    /\ UNCHANGED <<valuation, service, wallet_obj>>
    /\ InLoop /\ Selected(active, Clients[idx])
    /\ errors' = Append(errors, _normalize_source(Clients[idx]))
    /\ trace' = Append(trace, FetchEvent("ApiRequestError", {}, 0, 0))
    /\ idx' = idx + 1
    /\ UNCHANGED <<fs, pc, op, ret, wpath, wdata, active, new_entries,
                   history_records, total_rates, payload, calls, result,
                   prev, pre>>

\* client.fetch_rates() returns quotes for `pairs`, and the wall clock then
\* reads t.  datetime.now() is the system's wall clock, which may be set
\* back between two readings: t is not tied to the readings before it.
FetchOk ==
    /\ UNCHANGED <<valuation, service, wallet_obj>>
    /\ InLoop /\ Selected(active, Clients[idx])
    /\ \E pairs \in (SUBSET Pairs) \ {{}}, t \in Times :
        LET rate == QuotedRate(Clients[idx], t)
        IN
          /\ Cardinality(pairs) <= HistoryRoom
          /\ new_entries' =
                PutEntries(new_entries, pairs, rate, NowIso(t), Clients[idx])
          /\ history_records' = history_records
                \o RecordsFrom(1, pairs, rate, NowIso(t), Clients[idx])
          /\ total_rates' = total_rates + Cardinality(pairs)
          /\ trace' = Append(trace, FetchEvent("ok", pairs, rate, t))
    /\ idx' = idx + 1
    /\ UNCHANGED <<fs, pc, op, ret, wpath, wdata, active, errors, payload,
                   calls, result, prev, pre>>

\* client.fetch_rates() raises something that is no ApiRequestError
\* (api_clients.py reads config.exchange_api_key, which ParserConfig does
\* not define; response.json() may raise): run_update does not catch it.
FetchRaises ==
    /\ UNCHANGED <<valuation, service, wallet_obj>>
    /\ InLoop /\ Selected(active, Clients[idx])
    /\ trace' = Append(trace, FetchEvent("Exception", {}, 0, 0))
    /\ Finish(ResultOf("run_update", "Exception"))
    /\ UNCHANGED fs

\* After the loop: raise when nothing was collected, else read the cache,
\* merge, and start writing the payload.
Aggregate ==
    /\ UNCHANGED <<valuation, service, wallet_obj>>
    /\ pc = "fetch" /\ idx > Len(Clients)
    /\ IF NothingCollected(new_entries)
       THEN /\ Finish(ResultOf("run_update", "ApiRequestError"))
            /\ UNCHANGED <<fs, trace>>
       ELSE LET current_data == read_rates(fs[RatesPath])
            IN  IF MergeOutcome(current_data) # "ok"
                THEN /\ Finish(ResultOf("run_update", MergeOutcome(current_data)))
                     /\ UNCHANGED <<fs, trace>>
                ELSE /\ \E t \in Times :
                           payload' = MergedPayload(current_data, new_entries, t)
                     /\ wpath' = RatesPath /\ wdata' = payload'
                     /\ ret' = "history" /\ pc' = "aw_open"
                     /\ UNCHANGED <<fs, op, active, idx, new_entries,
                                    history_records, errors, total_rates,
                                    calls, result, prev, pre, trace>>

\* ------------------------------------------------------- _atomic_write
\* tmp_path.open("w"): the temporary file exists and is empty.
AwOpen ==
    /\ UNCHANGED <<valuation, service, wallet_obj>>
    /\ pc = "aw_open"
    /\ fs' = [fs EXCEPT ![TmpPath(wpath)] = FileOf(wdata, "empty")]
    /\ pc' = "aw_dump"
    /\ UNCHANGED <<op, locals, calls, result, prev, pre, trace>>

\* json.dump: one more chunk of the text reaches the file; the with block
\* is left once the text is complete.
AwDump ==
    /\ UNCHANGED <<valuation, service, wallet_obj>>
    /\ pc = "aw_dump"
    /\ LET tmp == TmpPath(wpath)
       IN  /\ fs' = [fs EXCEPT ![tmp].text = Dumped(@)]
           /\ pc' = IF Dumped(fs[tmp].text) = "complete"
                    THEN "aw_replace" ELSE "aw_dump"
    /\ UNCHANGED <<op, locals, calls, result, prev, pre, trace>>

\* tmp_path.replace(path)
AwReplace ==
    /\ UNCHANGED <<valuation, service, wallet_obj>>
    /\ pc = "aw_replace"
    /\ LET tmp == TmpPath(wpath)
       IN  fs' = Replaced(fs, tmp, wpath)
    /\ pc' = ret
    /\ UNCHANGED <<op, locals, calls, result, prev, pre, trace>>

\* ------------------------------------------------------ append_history
\* history = self._read_history(); history.extend(records); then the
\* atomic write.  run_update calls it only with a non-empty list.
AppendHistory ==
    /\ UNCHANGED <<valuation, service, wallet_obj>>
    /\ pc = "history"
    /\ IF op = "run_update" /\ history_records = <<>>
       THEN /\ pc' = "return"
            /\ UNCHANGED <<ret, wpath, wdata>>
       ELSE /\ wpath' = HistoryPath
            /\ wdata' = JsonArray(Extended(_read_history(fs[HistoryPath]),
                                           history_records))
            /\ ret' = "return" /\ pc' = "aw_open"
    /\ UNCHANGED <<fs, op, active, idx, new_entries, history_records, errors,
                   total_rates, payload, calls, result, prev, pre, trace>>

\* The running call returns.
Return ==
    /\ UNCHANGED <<valuation, service, wallet_obj>>
    /\ pc = "return"
    /\ Finish([ResultOf(op, "ok") EXCEPT
                 !.total_rates = total_rates, !.errors = errors,
                 !.last_refresh = payload.last_refresh, !.arg = payload])
    /\ UNCHANGED <<fs, trace>>

\* The process is killed while a call runs: its memory is gone, the files
\* stay as they are.  (payload is kept as the record of what the killed
\* call was writing.)
Crash ==
    /\ UNCHANGED <<valuation, service, wallet_obj>>
    /\ pc \notin {"idle", "dead"}
    /\ pc' = "dead"
    /\ ret' = "idle" /\ wpath' = RatesPath /\ wdata' = EmptyCache
    /\ idx' = 1 /\ new_entries' = EmptyPairs /\ history_records' = <<>>
    /\ errors' = <<>> /\ total_rates' = 0 /\ trace' = <<>>
    /\ UNCHANGED <<fs, op, active, payload, calls, result, prev, pre>>

\* ------------------------------------------------- storage, called alone
WriteInputs ==
    { JsonObject("dict", m, u) :
        m \in {EmptyPairs, [p \in {"EUR_USD"} |-> Entry(1, NowIso(0), "exchangerate")]},
        u \in {NoneTs, NowIso(MaxTime)} }

\* storage.write_rates(data)
CallWriteRates ==
    /\ UNCHANGED <<valuation, service, wallet_obj>>
    /\ pc = "idle" /\ calls < MaxCalls
    /\ \E data \in WriteInputs : payload' = data
    /\ op' = "write_rates" /\ Entered
    /\ wpath' = RatesPath /\ wdata' = payload'
    /\ ret' = "return" /\ pc' = "aw_open"
    /\ UNCHANGED <<fs, active, idx, new_entries, history_records, errors,
                   total_rates>>

\* storage.read_rates(), once after a call that writes (it writes nothing)
CallReadRates ==
    /\ UNCHANGED <<valuation, service, wallet_obj>>
    /\ pc = "idle" /\ result.op # "read_rates"
    /\ op' = "read_rates" /\ pc' = "read"
    /\ prev' = [op |-> result.op, status |-> result.status, arg |-> result.arg]
    /\ result' = Running
    /\ pre' = fs /\ trace' = <<>>
    /\ UNCHANGED <<fs, locals, calls>>

ReadRates ==
    /\ UNCHANGED <<valuation, service, wallet_obj>>
    /\ pc = "read"
    /\ Finish([ResultOf("read_rates", "ok") EXCEPT
                 !.value = read_rates(fs[RatesPath])])
    /\ UNCHANGED <<fs, trace>>

\* storage.append_history(records)
CallAppendHistory ==
    /\ UNCHANGED <<valuation, service, wallet_obj>>
    /\ pc = "idle" /\ calls < MaxCalls
    /\ \E records \in {<<>>, <<OldRecord>>} :
          /\ Len(records) <= MaxHistory - Len(_read_history(fs[HistoryPath]))
          /\ history_records' = records
    /\ op' = "append_history" /\ pc' = "history" /\ Entered
    /\ UNCHANGED <<fs, ret, wpath, wdata, active, idx, new_entries, errors,
                   total_rates, payload>>

Next ==
    \/ StartUpdate \/ FetchSkip \/ FetchFail \/ FetchOk \/ FetchRaises
    \/ Aggregate \/ AwOpen \/ AwDump \/ AwReplace \/ AppendHistory
    \/ Return \/ Crash
    \/ CallWriteRates \/ CallReadRates \/ ReadRates \/ CallAppendHistory

Spec == Init /\ [][Next]_vars

\* ============================================================ core side
\* core/usecases.py: the pivot table, freshness, get_exchange_rate and
\* show_portfolio, over the files DatabaseManager reads.  The use cases
\* modelled here write nothing.
MaxPairs == 2      \* entries a cache mapping may hold
MaxWallets == 2    \* wallets a portfolio may hold

\* --------------------------------------------------------------- numbers
\* Rates, balances and values, in exact arithmetic: the fraction n/d in
\* lowest terms with d > 0.
Abs(x) == IF x < 0 THEN -x ELSE x
RECURSIVE Gcd(_, _)
Gcd(a, b) == IF b = 0 THEN a ELSE Gcd(b, a % b)
Frac(n, d) ==
    LET g == Gcd(Abs(n), Abs(d))
        sign == IF d < 0 THEN -1 ELSE 1
    IN  <<(sign * n) \div g, (sign * d) \div g>>
Whole(n) == Frac(n, 1)
Mul(a, b) == Frac(a[1] * b[1], a[2] * b[2])
Div(a, b) == Frac(a[1] * b[2], a[2] * b[1])
Add(a, b) == Frac(a[1] * b[2] + b[1] * a[2], a[2] * b[2])
IsZero(a) == a[1] = 0

\* ------------------------------------------------------------ rates.json
\* The value under "rate": a JSON number, a string that spells a number
\* ("2.0"), a string float() rejects, or null.
Num(n) == [kind |-> "num", n |-> n]
NumText(n) == [kind |-> "numtext", n |-> n]
TextValue == [kind |-> "text", n |-> 0]
NullValue == [kind |-> "null", n |-> 0]
\* The value under a pair's key: not a dict, a dict without "rate", or a
\* dict with it.
NotADict == [isdict |-> FALSE, hasrate |-> FALSE, rate |-> NullValue]
NoRate == [isdict |-> TRUE, hasrate |-> FALSE, rate |-> NullValue]
RateInfo(v) == [isdict |-> TRUE, hasrate |-> TRUE, rate |-> v]
Item(pair, info) == [pair |-> pair, info |-> info]

\* What db_manager.read("rates", default={}) finds.  A dict is given by its
\* keys in order: whether "pairs" is there and holds a dict, the entries of
\* that dict (section), the other top-level entries (top), and
\* "last_refresh".
RatesDict(pairs_key, section, top, lr_key, last_refresh) ==
    [kind |-> "dict", pairs_key |-> pairs_key, section |-> section,
     top |-> top, lr_key |-> lr_key, last_refresh |-> last_refresh]
EmptyDict == RatesDict("missing", <<>>, <<>>, FALSE, NoneTs)
RatesList == [EmptyDict EXCEPT !.kind = "list"]
RatesAbsent == [EmptyDict EXCEPT !.kind = "absent"]
RatesUnparseable == [EmptyDict EXCEPT !.kind = "unparseable"]

\* DatabaseManager.read("rates", default={})
db_read_rates(file) ==
    IF file.kind = "absent" THEN EmptyDict
    ELSE IF file.kind = "unparseable" THEN EmptyDict
    ELSE file

\* not rates_data, for a dict
IsEmptyDict(d) ==
    d.pairs_key = "missing" /\ d.top = <<>> /\ ~d.lr_key

\* -------------------------------------------------------- _build_usd_rates
\* pair.split("_", 1) followed by .upper() on both parts; <<>> stands for a
\* key without "_".
PairKeys == {"EUR_USD", "USD_EUR", "USD_USD", "BTC_EUR", "btc_usd", "EURUSD"}
SplitUpper(pair) ==
    CASE pair = "EUR_USD" -> <<"EUR", "USD">>
      [] pair = "USD_EUR" -> <<"USD", "EUR">>
      [] pair = "USD_USD" -> <<"USD", "USD">>
      [] pair = "BTC_EUR" -> <<"BTC", "EUR">>
      [] pair = "btc_usd" -> <<"BTC", "USD">>
      [] pair = "BTC_USD" -> <<"BTC", "USD">>
      [] OTHER -> <<>>

\* float(info["rate"]) succeeds
IsNumeric(v) == v.kind \in {"num", "numtext"}

\* The cases in which the loop body reaches the two assignments.
Usable(item) ==
    /\ item.pair \notin {"last_refresh", "source"}
    /\ item.info.isdict /\ SplitUpper(item.pair) # <<>>
    /\ item.info.hasrate
    /\ IsNumeric(item.info.rate)

\* rates after the loop body ran for item.
PutRateAnyRate(rates, item) ==
    IF ~Usable(item) THEN rates
    ELSE LET from_code == SplitUpper(item.pair)[1]
             to_code == SplitUpper(item.pair)[2]
             rate_value == Whole(item.info.rate.n)
         IN  IF to_code = "USD"
             THEN [c \in DOMAIN rates \cup {from_code} |->
                      IF c = from_code THEN rate_value ELSE rates[c]]
             ELSE IF from_code = "USD"
             THEN [c \in DOMAIN rates \cup {to_code} |->
                      IF c = to_code THEN rate_value ELSE rates[c]]
             ELSE rates
PutRate(rates, item) ==
    IF ~Usable(item) THEN rates
    ELSE LET from_code == SplitUpper(item.pair)[1]
             to_code == SplitUpper(item.pair)[2]
             rate_value == Whole(item.info.rate.n)
         IN  IF to_code = "USD"
             THEN [c \in DOMAIN rates \cup {from_code} |->
                      IF c = from_code THEN rate_value ELSE rates[c]]
             ELSE IF from_code = "USD" /\ ~IsZero(rate_value)
             THEN [c \in DOMAIN rates \cup {to_code} |->
                      IF c = to_code THEN Div(Whole(1), rate_value)
                      ELSE rates[c]]
             ELSE rates

RECURSIVE PutRates(_, _, _)
PutRates(rates, raw_pairs, i) ==
    IF i > Len(raw_pairs) THEN rates
    ELSE PutRates(PutRate(rates, raw_pairs[i]), raw_pairs, i + 1)

RawPairs(rates_data) ==
    IF rates_data.pairs_key = "dict" THEN rates_data.section
    ELSE rates_data.top

UsdOnly == [c \in {"USD"} |-> Whole(1)]
_build_usd_rates(rates_data) == PutRates(UsdOnly, RawPairs(rates_data), 1)

\* ----------------------------------------------------------- freshness
\* settings.get("RATES_TTL_SECONDS", 300); the clock counts seconds.
RATES_TTL_SECONDS == 300
\* What datetime.now(timezone.utc) may read when a use case runs.
NowReadings == {0, RATES_TTL_SECONDS, RATES_TTL_SECONDS + 1}

\* _is_rates_fresh, the clock reading now (read only when last_refresh
\* parses).
FreshWithin(rates_data, now) ==
    LET last_refresh == parse_iso_datetime(rates_data.last_refresh)
    IN  IF last_refresh = NoTime THEN FALSE
        ELSE now - last_refresh < RATES_TTL_SECONDS
_is_rates_fresh(rates_data, now) ==
    LET last_refresh == parse_iso_datetime(rates_data.last_refresh)
    IN  IF last_refresh = NoTime THEN FALSE
        ELSE now - last_refresh <= RATES_TTL_SECONDS
\* Whether _is_rates_fresh reads the clock.
ReadsClock(rates_data) == parse_iso_datetime(rates_data.last_refresh) # NoTime

\* _refresh_rates_cache: a stub, it raises ApiRequestError whatever it is
\* given.
_refresh_rates_cache(current_data) ==
    [raises |-> "ApiRequestError", value |-> current_data]

\* ----------------------------------------------------------- currencies
CURRENCY_REGISTRY == {"USD", "EUR", "RUB", "BTC", "ETH"}
\* (code or "").strip().upper()
Normalized(code) == IF code = "eur" THEN "EUR" ELSE code
\* get_currency: the code of the currency found, "" when it raises
\* CurrencyNotFoundError.
get_currency(code) ==
    IF Normalized(code) \in CURRENCY_REGISTRY THEN Normalized(code) ELSE ""

\* ---------------------------------------------------- get_exchange_rate
\* How a call ended.  status is "ok" or the exception's type; what says
\* which of the messages the exception carries and names the code in it.
\* read, refreshed, clock and table record what the call did on its way.
NoFrac == <<0, 0>>
Outcome(status) ==
    [status |-> status, what |-> "", names |-> "",
     rate |-> NoFrac, inverse_rate |-> NoFrac, updated_at |-> NoneTs,
     stale |-> FALSE, warning |-> "",
     read |-> FALSE, refreshed |-> FALSE, clock |-> NoTime,
     table |-> UsdOnly]
Raised(status, what, names, base) ==
    [base EXCEPT !.status = status, !.what = what, !.names = names]

\* Lines 437-460: the table is built and the rate derived from it.
RateFromTable(rates_data, from, to, base) ==
    LET usd_rates == _build_usd_rates(rates_data)
        seen == [base EXCEPT !.table = usd_rates]
    IN  IF from \notin DOMAIN usd_rates
        THEN Raised("ValueError", "no rate", from, seen)
        ELSE IF to \notin DOMAIN usd_rates
        THEN Raised("ValueError", "no rate", to, seen)
        ELSE IF IsZero(usd_rates[to])
        THEN Raised("ValueError", "bad rate", to, seen)
        ELSE LET rate_value == Div(usd_rates[from], usd_rates[to])
             IN  [seen EXCEPT
                    !.status = "ok",
                    !.rate = rate_value,
                    !.inverse_rate = IF IsZero(rate_value) THEN NoFrac
                                     ELSE Div(Whole(1), rate_value),
                    !.updated_at = rates_data.last_refresh]

\* Lines 419-435: the cache is read and, when it is not fresh, refreshed.
RefreshedUnflagged(rates_data, now, base) ==
    LET timed == IF ReadsClock(rates_data)
                 THEN [base EXCEPT !.clock = now] ELSE base
    IN  IF _is_rates_fresh(rates_data, now)
        THEN [timed EXCEPT !.stale = FALSE]
        ELSE LET tried == [timed EXCEPT !.refreshed = TRUE]
                 refreshed == _refresh_rates_cache(rates_data)
             IN  IF refreshed.raises = "ApiRequestError"
                 THEN IF IsEmptyDict(rates_data)
                      THEN Raised("ApiRequestError", "refresh", "",
                                  [tried EXCEPT !.stale = TRUE])
                      ELSE [tried EXCEPT !.warning = "refresh failed"]
                 ELSE [tried EXCEPT !.stale = FALSE]
Refreshed(rates_data, now, base) ==
    LET timed == IF ReadsClock(rates_data)
                 THEN [base EXCEPT !.clock = now] ELSE base
    IN  IF _is_rates_fresh(rates_data, now)
        THEN [timed EXCEPT !.stale = FALSE]
        ELSE LET tried == [timed EXCEPT !.refreshed = TRUE]
                 refreshed == _refresh_rates_cache(rates_data)
             IN  IF refreshed.raises = "ApiRequestError"
                 THEN IF IsEmptyDict(rates_data)
                      THEN Raised("ApiRequestError", "refresh", "",
                                  [tried EXCEPT !.stale = TRUE])
                      ELSE [tried EXCEPT !.stale = TRUE,
                                         !.warning = "refresh failed"]
                 ELSE [tried EXCEPT !.stale = FALSE]

get_exchange_rate(from_code, to_code, file, now) ==
    LET normalized_from == get_currency(from_code)
        normalized_to == get_currency(to_code)
        start == Outcome("running")
    IN  IF normalized_from = ""
        THEN Raised("CurrencyNotFoundError", "unknown", Normalized(from_code), start)
        ELSE IF normalized_to = ""
        THEN Raised("CurrencyNotFoundError", "unknown", Normalized(to_code), start)
        ELSE IF normalized_from = normalized_to
        THEN [start EXCEPT !.status = "ok", !.rate = Whole(1),
                           !.inverse_rate = Whole(1)]
        ELSE LET rates_data == db_read_rates(file)
                 read == [start EXCEPT !.read = TRUE]
             IN  IF rates_data.kind # "dict"
                 THEN Raised("ValueError", "format", "", read)
                 ELSE LET checked == Refreshed(rates_data, now, read)
                          \* rates_data = refreshed, when the refresh returned
                          used == IF checked.refreshed /\ ~checked.stale
                                  THEN _refresh_rates_cache(rates_data).value
                                  ELSE rates_data
                      IN  IF checked.status # "running" THEN checked
                          ELSE RateFromTable(used, normalized_from,
                                             normalized_to, checked)

\* ------------------------------------------------ _calc_base_conversion
\* (rate_to_usd, rate_to_base, estimated_value_base, normalized_base), with
\* NoFrac for None.
Lookup(exchange_rates, code) ==
    IF code \in DOMAIN exchange_rates THEN exchange_rates[code] ELSE NoFrac
_calc_base_conversion(currency_code, base_currency, exchange_rates, amount) ==
    LET normalized_base == Normalized(base_currency)
        rate_to_usd == Lookup(exchange_rates, currency_code)
        base_rate_usd == Lookup(exchange_rates, normalized_base)
        rate_to_base ==
            IF rate_to_usd = NoFrac THEN NoFrac
            ELSE IF normalized_base = "USD" THEN rate_to_usd
            ELSE IF base_rate_usd # NoFrac /\ ~IsZero(base_rate_usd)
            THEN Div(rate_to_usd, base_rate_usd)
            ELSE NoFrac
    IN  [rate_to_usd |-> rate_to_usd,
         rate_to_base |-> rate_to_base,
         estimated_value_base |->
            IF rate_to_base = NoFrac THEN NoFrac
            ELSE Mul(amount, rate_to_base),
         normalized_base |-> normalized_base]

\* -------------------------------------------------------- portfolios.json
\* What _load_portfolio_for_user finds for the user: no record (it raises
\* ValueError), or the user's wallets in the order of the mapping.
Wallet(currency_code, balance) ==
    [currency_code |-> currency_code, balance |-> balance]
NoPortfolio == [found |-> FALSE, wallets |-> <<>>]
PortfolioOf(wallets) == [found |-> TRUE, wallets |-> wallets]

\* ----------------------------------------------------------- valuation
\* How a show_portfolio call ended; table is the pivot table it loaded.
Report(status) ==
    [status |-> status, what |-> "", names |-> "",
     wallets |-> <<>>, base_currency |-> "", total_in_base |-> NoFrac,
     table |-> UsdOnly]
Failed(status, what, names, base) ==
    [base EXCEPT !.status = status, !.what = what, !.names = names]

\* _load_exchange_rates: "format" and "no data" stand for its two
\* ValueErrors.
_load_exchange_rates(file) ==
    LET rates_data == db_read_rates(file)
    IN  IF rates_data.kind # "dict"
        THEN [raises |-> "format", rates |-> UsdOnly]
        ELSE LET rates == _build_usd_rates(rates_data)
             IN  IF Cardinality(DOMAIN rates) <= 1
                 THEN [raises |-> "no data", rates |-> rates]
                 ELSE [raises |-> "", rates |-> rates]

\* Portfolio.get_total_value: total_in_usd after the first i wallets.
RECURSIVE TotalInUsd(_, _, _)
TotalInUsd(wallets, exchange_rates, i) ==
    IF i = 0 THEN Whole(0)
    ELSE Add(TotalInUsd(wallets, exchange_rates, i - 1),
              Mul(wallets[i].balance,
                     exchange_rates[wallets[i].currency_code]))

Unpriced(wallets, exchange_rates) ==
    { i \in 1..Len(wallets) :
        wallets[i].currency_code \notin DOMAIN exchange_rates }
FirstOf(indices) == CHOOSE i \in indices : \A j \in indices : i <= j

get_total_value_guarded(wallets, base_currency, exchange_rates, base) ==
    IF base_currency \notin DOMAIN exchange_rates
    THEN Failed("ValueError", "no base rate", base_currency, base)
    ELSE IF Unpriced(wallets, exchange_rates) # {}
    THEN Failed("ValueError", "no rate",
                wallets[FirstOf(Unpriced(wallets, exchange_rates))].currency_code,
                base)
    ELSE LET total_in_usd == TotalInUsd(wallets, exchange_rates, Len(wallets))
         IN  IF base_currency = "USD" \/ IsZero(exchange_rates[base_currency])
             THEN [base EXCEPT !.status = "ok", !.total_in_base = total_in_usd]
             ELSE [base EXCEPT
                     !.status = "ok",
                     !.total_in_base =
                        Div(total_in_usd, exchange_rates[base_currency])]
get_total_value(wallets, base_currency, exchange_rates, base) ==
    IF base_currency \notin DOMAIN exchange_rates
    THEN Failed("ValueError", "no base rate", base_currency, base)
    ELSE IF Unpriced(wallets, exchange_rates) # {}
    THEN Failed("ValueError", "no rate",
                wallets[FirstOf(Unpriced(wallets, exchange_rates))].currency_code,
                base)
    ELSE LET total_in_usd == TotalInUsd(wallets, exchange_rates, Len(wallets))
         IN  IF base_currency = "USD"
             THEN [base EXCEPT !.status = "ok", !.total_in_base = total_in_usd]
             ELSE IF IsZero(exchange_rates[base_currency])
             THEN Failed("ZeroDivisionError", "", "", base)
             ELSE [base EXCEPT
                     !.status = "ok",
                     !.total_in_base =
                        Div(total_in_usd, exchange_rates[base_currency])]

\* settings.get("DEFAULT_BASE_CURRENCY", "USD")
DefaultBase == "USD"

\* The loop of show_portfolio over the wallets: one entry of wallets_info.
WalletInfo(wallet, normalized_base, exchange_rates) ==
    LET calc == _calc_base_conversion(wallet.currency_code, normalized_base,
                                      exchange_rates, wallet.balance)
    IN  [currency_code |-> wallet.currency_code,
         balance |-> wallet.balance,
         value_in_base |-> IF calc.estimated_value_base # NoFrac
                           THEN calc.estimated_value_base ELSE Whole(0)]

show_portfolio(base_currency, files) ==
    LET normalized_base ==
            Normalized(IF base_currency = "" THEN DefaultBase ELSE base_currency)
        start == Report("running")
    IN  IF ~files.portfolios.found
        THEN Failed("ValueError", "no portfolio", "", start)
        ELSE LET wallets == files.portfolios.wallets
                 loaded == _load_exchange_rates(files.rates)
                 exchange_rates == loaded.rates
                 seen == [start EXCEPT !.table = exchange_rates,
                                       !.base_currency = normalized_base]
             IN  IF loaded.raises # ""
                 THEN Failed("ValueError", loaded.raises, "", seen)
                 ELSE IF normalized_base \notin DOMAIN exchange_rates
                 THEN Failed("ValueError", "unknown base", normalized_base, seen)
                 ELSE IF Unpriced(wallets, exchange_rates) # {}
                 THEN Failed("ValueError", "no rate",
                             wallets[FirstOf(Unpriced(wallets, exchange_rates))]
                                .currency_code, seen)
                 ELSE LET wallets_info ==
                              [i \in 1..Len(wallets) |->
                                  WalletInfo(wallets[i], normalized_base,
                                             exchange_rates)]
                          totalled == get_total_value(wallets, normalized_base,
                                                      exchange_rates, seen)
                      IN  IF totalled.status # "ok" THEN totalled
                          ELSE [totalled EXCEPT !.wallets = wallets_info]

\* ------------------------------------------------------------- inputs
\* The files the use cases find, and the arguments they are called with.
NumberInfos == { RateInfo(Num(0)), RateInfo(Num(2)), RateInfo(Num(3)) }
OtherInfos ==
    { NotADict, NoRate, RateInfo(TextValue), RateInfo(NullValue),
      RateInfo(NumText(2)) }
Items ==
    { Item(k, i) : k \in PairKeys, i \in NumberInfos }
    \cup { Item("EUR_USD", i) : i \in OtherInfos }
\* The entries of a JSON object: its keys differ.
ItemSeqs(max) ==
    { s \in UNION { [1..n -> Items] : n \in 0..max } :
        \A i, j \in DOMAIN s : i # j => s[i].pair # s[j].pair }
Eur2 == Item("EUR_USD", RateInfo(Num(2)))
Btc3 == Item("btc_usd", RateInfo(Num(3)))

InitRatesDicts ==
    \* {"pairs": {...}, "last_refresh": null}
    { RatesDict("dict", s, <<>>, TRUE, NoneTs) : s \in ItemSeqs(MaxPairs) }
    \* the flat layout: the pairs are top-level keys
    \cup { RatesDict(k, <<>>, s, FALSE, NoneTs) :
             k \in {"missing", "other"}, s \in ItemSeqs(1) }
    \* top-level pairs beside a "pairs" dict
    \cup { RatesDict("dict", s, <<Eur2>>, TRUE, NoneTs) : s \in ItemSeqs(1) }
    \* every kind of last_refresh
    \cup { RatesDict("dict", <<Eur2, Btc3>>, <<>>, TRUE, u) : u \in TsValues }
    \cup { RatesDict("dict", <<>>, <<>>, TRUE, u) : u \in TsValues }
    \cup { RatesDict("missing", <<>>, <<>>, TRUE, NowIso(0)) }
InitCoreRates ==
    {RatesAbsent, RatesUnparseable, RatesList} \cup InitRatesDicts

\* The caches portfolios are valued against.
ValuedRates ==
    { RatesAbsent, RatesList,
      RatesDict("dict", <<>>, <<>>, TRUE, NowIso(0)),
      RatesDict("dict", <<Eur2, Btc3>>, <<>>, TRUE, NowIso(0)),
      RatesDict("dict", <<Item("USD_EUR", RateInfo(Num(2)))>>, <<>>, TRUE,
                NowIso(0)),
      RatesDict("dict", <<Item("EUR_USD", RateInfo(Num(0))), Btc3>>, <<>>,
                TRUE, NowIso(0)),
      RatesDict("dict", <<Item("USD_USD", RateInfo(Num(2))), Eur2>>, <<>>,
                TRUE, NowIso(0)) }
Balances == {Whole(1), Whole(3)}
WalletCodes == {"USD", "EUR", "BTC"}
WalletSeqs ==
    { s \in UNION { [1..n -> { Wallet(c, b) : c \in WalletCodes, b \in Balances }] :
                      n \in 0..MaxWallets } :
        \A i, j \in DOMAIN s : i # j => s[i].currency_code # s[j].currency_code }

InitDb ==
    { [rates |-> d, portfolios |-> NoPortfolio] : d \in InitCoreRates }
    \cup { [rates |-> d, portfolios |-> PortfolioOf(w)] :
             d \in ValuedRates, w \in WalletSeqs }

CodeArgs == {"USD", "EUR", "BTC", "eur", "XXX"}
BaseArgs == {"", "USD", "EUR", "eur", "BTC", "XXX"}

\* The parser service is not running: its state stays as it is.
UpdaterAtRest ==
    /\ fs = [p \in Paths |-> Absent]
    /\ pc = "idle" /\ op = "none" /\ ret = "idle"
    /\ wpath = RatesPath /\ wdata = EmptyCache
    /\ active = {} /\ idx = 1
    /\ new_entries = EmptyPairs /\ history_records = <<>>
    /\ errors = <<>> /\ total_rates = 0
    /\ payload = EmptyCache
    /\ calls = 0
    /\ result = NoResult
    /\ prev = NoPrev
    /\ pre = fs /\ trace = <<>>

ValuationInit ==
    /\ UpdaterAtRest
    /\ sched = NoSched /\ cycle = NoCycle /\ wallet_obj = NoWallet
    /\ db \in InitDb
    /\ call = NoCall /\ out = NoOut

\* ------------------------------------------------------------ use cases
\* One call of a use case on the files as they are; the use cases here
\* write nothing, so a behaviour is one call.
GetExchangeRate ==
    /\ call = NoCall
    /\ \E from_code, to_code \in CodeArgs, now \in NowReadings :
          /\ call' = [op |-> "get_exchange_rate",
                      from_code |-> from_code, to_code |-> to_code]
          /\ out' = get_exchange_rate(from_code, to_code, db.rates, now)
    /\ UNCHANGED <<db, updater, service, wallet_obj>>

ShowPortfolio ==
    /\ call = NoCall
    /\ \E base_currency \in BaseArgs :
          /\ call' = [op |-> "show_portfolio", base_currency |-> base_currency]
          /\ out' = show_portfolio(base_currency, db)
    /\ UNCHANGED <<db, updater, service, wallet_obj>>

\* _build_usd_rates on the dict read from rates.json
BuildUsdRates ==
    /\ call = NoCall
    /\ db_read_rates(db.rates).kind = "dict"
    /\ call' = [op |-> "_build_usd_rates"]
    /\ out' = [status |-> "ok",
               table |-> _build_usd_rates(db_read_rates(db.rates))]
    /\ UNCHANGED <<db, updater, service, wallet_obj>>

\* _is_rates_fresh on the dict read from rates.json
IsRatesFresh ==
    /\ call = NoCall
    /\ db_read_rates(db.rates).kind = "dict"
    /\ \E now \in NowReadings :
          /\ call' = [op |-> "_is_rates_fresh", now |-> now]
          /\ out' = [status |-> "ok",
                     fresh |-> _is_rates_fresh(db_read_rates(db.rates), now)]
    /\ UNCHANGED <<db, updater, service, wallet_obj>>

\* _calc_base_conversion with the pivot table of rates.json
CalcBaseConversion ==
    /\ call = NoCall
    /\ db_read_rates(db.rates).kind = "dict"
    /\ \E currency_code \in WalletCodes, base_currency \in BaseArgs \ {""},
          amount \in Balances :
          LET exchange_rates == _build_usd_rates(db_read_rates(db.rates))
          IN  /\ call' = [op |-> "_calc_base_conversion",
                          currency_code |-> currency_code,
                          base_currency |-> base_currency,
                          amount |-> amount]
              /\ out' = [status |-> "ok", table |-> exchange_rates,
                         calc |-> _calc_base_conversion(
                                     currency_code, base_currency,
                                     exchange_rates, amount)]
    /\ UNCHANGED <<db, updater, service, wallet_obj>>

ValuationNext ==
    \/ GetExchangeRate \/ ShowPortfolio \/ BuildUsdRates \/ IsRatesFresh
    \/ CalcBaseConversion

ValuationSpec == ValuationInit /\ [][ValuationNext]_vars

\* ============================================================== clients
\* parser_service/api_clients.py: fetch_rates of the two clients, applied
\* to what requests.get gives them, and run_update storing what they
\* return.

\* parser_config, as config.py defines ParserConfig: the class has the field
\* EXCHANGERATE_API_KEY and the method get_exchange_api_key, and no
\* attribute exchange_api_key.  KeyedConfig is a config object that has it
\* (the clients take the config as an argument).
ParserConfig ==
    [exchange_api_key |-> "undefined",
     BASE_CURRENCY |-> "USD",
     FIAT_CURRENCIES |-> <<"EUR", "GBP", "RUB">>,
     CRYPTO_CURRENCIES |-> <<"BTC", "ETH", "SOL">>]
KeyedConfig == [ParserConfig EXCEPT !.exchange_api_key = "key"]
Configs == {ParserConfig, KeyedConfig}

\* f"{code}_{self.config.BASE_CURRENCY}"
PairName(code) ==
    CASE code = "BTC" -> "BTC_USD"
      [] code = "ETH" -> "ETH_USD"
      [] code = "SOL" -> "SOL_USD"
      [] code = "EUR" -> "EUR_USD"
      [] code = "GBP" -> "GBP_USD"
      [] code = "RUB" -> "RUB_USD"
Codes(currencies) == { currencies[i] : i \in DOMAIN currencies }
CodeOf(currencies, pair) ==
    CHOOSE code \in Codes(currencies) : PairName(code) = pair

\* What requests.get and raise_for_status give: they raise a
\* RequestException, or there is a response, whose body json() rejects, or
\* parses to a list, or to an object.  In an object, result is the value
\* under "result" and values[code] the number the provider reports for the
\* code (NullValue: it reports none).
Response(net, body, api_result, values) ==
    [net |-> net, body |-> body, result |-> api_result, values |-> values]

\* How a fetch_rates call ends: raises names the exception ("" when it
\* returns), rates is the mapping returned.
Fetched(raises, rates) == [raises |-> raises, rates |-> rates]
Raises(exception) == Fetched(exception, EmptyPairs)

\* The codes the loop of fetch_rates does not skip.
Priced(currencies, values) ==
    { code \in Codes(currencies) : values[code].kind # "null" }

CoinGeckoClient_fetch_rates(config, response) ==
    IF response.net = "RequestException" THEN Raises("ApiRequestError")
    ELSE IF response.body = "unparseable" THEN Raises("JSONDecodeError")
    ELSE IF response.body # "dict" THEN Raises("AttributeError")
    ELSE LET priced == Priced(config.CRYPTO_CURRENCIES, response.values)
         IN  IF \E code \in priced : response.values[code].kind = "text"
             THEN Raises("ValueError")
             ELSE IF priced = {} THEN Raises("ApiRequestError")
             ELSE Fetched("",
                    [pair \in { PairName(code) : code \in priced } |->
                        Whole(response.values[
                            CodeOf(config.CRYPTO_CURRENCIES, pair)].n)])

\* The codes ExchangeRateApiClient does not skip: base_to_code is neither
\* None nor 0.
Convertible_codes(currencies, values) ==
    { code \in Priced(currencies, values) :
        ~(values[code].kind = "num" /\ values[code].n = 0) }

ExchangeRateApiClient_fetch_rates(config, response) ==
    IF config.exchange_api_key = "undefined" THEN Raises("AttributeError")
    ELSE IF response.net = "RequestException" THEN Raises("ApiRequestError")
    ELSE IF response.body = "unparseable" THEN Raises("JSONDecodeError")
    ELSE IF response.body # "dict" THEN Raises("AttributeError")
    ELSE IF response.result # "success" THEN Raises("ApiRequestError")
    ELSE LET priced == Convertible_codes(config.FIAT_CURRENCIES,
                                         response.values)
         IN  IF \E code \in priced : response.values[code].kind = "text"
             THEN Raises("TypeError")
             ELSE IF priced = {} THEN Raises("ApiRequestError")
             ELSE Fetched("",
                    [pair \in { PairName(code) : code \in priced } |->
                        Frac(1, response.values[
                            CodeOf(config.FIAT_CURRENCIES, pair)].n)])

fetch_rates(source_name, config, response) ==
    IF source_name = "coingecko"
    THEN CoinGeckoClient_fetch_rates(config, response)
    ELSE ExchangeRateApiClient_fetch_rates(config, response)

\* new_entries after the loop over rates.items(): rate = float(payload["rate"])
EntriesFrom(rates, updated_at, source) ==
    [pair \in DOMAIN rates |-> Entry(rates[pair], updated_at, source)]

\* run_update of an updater with the one client, over an empty cache, the
\* clock reading now: how it ends and the pairs it has stored.
Updated(status, stored) == [status |-> status, stored |-> stored]
run_update_from(source_name, fetched, now) ==
    IF fetched.raises = "ApiRequestError"
    THEN Updated("ApiRequestError", EmptyPairs)
    ELSE IF fetched.raises # "" THEN Updated(fetched.raises, EmptyPairs)
    ELSE Updated("ok",
            MergedPayload(EmptyCache,
                          EntriesFrom(fetched.rates, NowIso(now), source_name),
                          now).pairs)

\* ------------------------------------------------------------- inputs
Prices == { NullValue, Num(0), Num(-1), Num(2), TextValue }
Responses(currencies) ==
    { Response("RequestException", "none", "none",
               [code \in Codes(currencies) |-> NullValue]),
      Response("ok", "unparseable", "none",
               [code \in Codes(currencies) |-> NullValue]),
      Response("ok", "list", "none",
               [code \in Codes(currencies) |-> NullValue]) }
    \cup { Response("ok", "dict", api_result, values) :
             api_result \in {"success", "error"},
             values \in [Codes(currencies) -> Prices] }
CurrenciesOf(source_name, config) ==
    IF source_name = "coingecko"
    THEN config.CRYPTO_CURRENCIES ELSE config.FIAT_CURRENCIES
SourceNames == {"coingecko", "exchangerate"}

FetchInit ==
    /\ UpdaterAtRest
    /\ db = NoDb /\ call = NoCall /\ out = NoOut
    /\ sched = NoSched /\ cycle = NoCycle /\ wallet_obj = NoWallet

\* client.fetch_rates()
FetchRates ==
    /\ call = NoCall
    /\ \E source_name \in SourceNames, config \in Configs :
       \E response \in Responses(CurrenciesOf(source_name, config)) :
          /\ call' = [op |-> "fetch_rates", source_name |-> source_name,
                      config |-> config, response |-> response]
          /\ out' = fetch_rates(source_name, config, response)
    /\ UNCHANGED <<db, updater, service, wallet_obj>>

\* RatesUpdater([client]).run_update()
RunUpdateFrom ==
    /\ call = NoCall
    /\ \E source_name \in SourceNames, config \in Configs :
       \E response \in Responses(CurrenciesOf(source_name, config)) :
          /\ call' = [op |-> "run_update", source_name |-> source_name,
                      config |-> config, response |-> response]
          /\ out' = run_update_from(
                        source_name,
                        fetch_rates(source_name, config, response), 0)
    /\ UNCHANGED <<db, updater, service, wallet_obj>>

FetchNext == FetchRates \/ RunUpdateFrom

FetchSpec == FetchInit /\ [][FetchNext]_vars

\* ============================================================ scheduler
\* parser_service/scheduler.py: run_scheduler, its loop, and the run_update
\* each turn of the loop makes, one client at a time.

\* interval_seconds as a caller gives it: a number of seconds, or, as the
\* module's own __main__ block calls run_scheduler(updater), the
\* RatesUpdater object bound to the first positional parameter.
IntSeconds == [kind |-> "int"]
UpdaterObject == [kind |-> "RatesUpdater"]
Intervals == { IntSeconds, UpdaterObject }

\* clients = {"coingecko": ..., "exchangerate": ..., "exchangerate-api": ...}
\* by the source_name of the client each key holds.
SchedulerClients ==
    [name \in {"coingecko", "exchangerate", "exchangerate-api"} |->
        IF name = "coingecko" THEN "coingecko" ELSE "exchangerate"]
\* clients.values(), in the order the keys were inserted
ClientValues ==
    <<SchedulerClients["coingecko"], SchedulerClients["exchangerate"],
      SchedulerClients["exchangerate-api"]>>

\* active_sources as a sequence of names; <<>> stands for None.
NoSources == <<>>
SourceLists ==
    { NoSources, <<"coingecko">>, <<"exchangerate-api">>,
      <<"coingecko", "coingecko">>, <<"coingecko", "nope">>,
      <<"CoinGecko">> }
Names(active_sources) ==
    { active_sources[i] : i \in DOMAIN active_sources }

\* [clients[name] for name in active_sources] if active_sources
\* else clients.values(); a name that is no key of clients raises KeyError.
Unkeyed(active_sources) ==
    { name \in Names(active_sources) : name \notin DOMAIN SchedulerClients }
selected_clients(active_sources) ==
    IF active_sources # NoSources
    THEN [i \in DOMAIN active_sources |-> SchedulerClients[active_sources[i]]]
    ELSE ClientValues

\* The updater argument: None, or RatesUpdater([coin_gecko_client,
\* exchange_rate_client]) as __main__ builds it.
NoUpdater == <<>>
GivenUpdater == <<"coingecko", "exchangerate">>
Updaters == { NoUpdater, GivenUpdater }

\* How client.fetch_rates() can end for a source under a config: the
\* exceptions ("" for a return) over every response requests.get can give.
FetchOutcomes(source_name, config) ==
    { fetch_rates(source_name, config, response).raises :
        response \in Responses(CurrenciesOf(source_name, config)) }

\* run_update's filter: `if sources and source_name not in sources`.
Skipped(active_sources, source_name) ==
    ~Selected(Names(active_sources), source_name)

Scheduling(interval_seconds, active_sources, clients, config) ==
    [pc |-> "loop", interval_seconds |-> interval_seconds,
     active_sources |-> active_sources, clients |-> clients,
     config |-> config, exc |-> ""]
Escaped(s, exception) == [s EXCEPT !.pc = "raised", !.exc = exception]
Looping == sched.pc \in {"loop", "update", "handled", "sleep"}

\* A run_update at its first client.  fetched lists the sources whose
\* fetch_rates was called, returned those that gave rates (each adds its
\* quotes to total_rates and to history_records); cache and history say
\* whether write_rates and append_history have been done.
FirstClient ==
    [step |-> "clients", i |-> 1, fetched |-> <<>>, returned |-> <<>>,
     cache |-> FALSE, history |-> FALSE, exc |-> ""]
RaisedIn(c, exception) == [c EXCEPT !.step = "raised", !.exc = exception]

SchedulerInit ==
    /\ UpdaterAtRest
    /\ db = NoDb /\ call = NoCall /\ out = NoOut
    /\ sched = NoSched /\ cycle = NoCycle /\ wallet_obj = NoWallet

\* run_scheduler(...), up to `while True`
RunScheduler ==
    /\ sched.pc = "off"
    /\ \E interval_seconds \in Intervals, active_sources \in SourceLists,
          given \in Updaters, config \in Configs :
          LET started ==
                Scheduling(interval_seconds, active_sources,
                        IF given # NoUpdater THEN given
                        ELSE selected_clients(active_sources),
                        config)
          IN  sched' = IF Unkeyed(active_sources) # {}
                       THEN Escaped(Scheduling(interval_seconds, active_sources,
                                            <<>>, config), "KeyError")
                       ELSE started
    /\ UNCHANGED <<cycle, db, call, out, updater, wallet_obj>>

\* result = updater.run_update(active_sources=active_sources): entered
StartCycle ==
    /\ sched.pc = "loop"
    /\ sched' = [sched EXCEPT !.pc = "update"]
    /\ cycle' = FirstClient
    /\ UNCHANGED <<db, call, out, updater, wallet_obj>>

\* One turn of `for client in self.clients`: the client is skipped, or its
\* fetch_rates returns, raises ApiRequestError (noted, next client) or
\* raises anything else (run_update raises it).
NextClient ==
    /\ sched.pc = "update" /\ cycle.step = "clients"
    /\ cycle.i <= Len(sched.clients)
    /\ LET source_name == sched.clients[cycle.i]
           called == [cycle EXCEPT !.i = @ + 1,
                                   !.fetched = Append(@, source_name)]
       IN  IF Skipped(sched.active_sources, source_name)
           THEN cycle' = [cycle EXCEPT !.i = @ + 1]
           ELSE \E raises \in FetchOutcomes(source_name, sched.config) :
                  cycle' =
                    IF raises = ""
                    THEN [called EXCEPT !.returned = Append(@, source_name)]
                    ELSE IF raises = "ApiRequestError" THEN called
                    ELSE RaisedIn(called, raises)
    /\ UNCHANGED <<sched, db, call, out, updater, wallet_obj>>

\* `if not new_entries: raise ApiRequestError`, else on to the writes
AfterClients ==
    /\ sched.pc = "update" /\ cycle.step = "clients"
    /\ cycle.i > Len(sched.clients)
    /\ cycle' = IF cycle.returned = <<>>
                THEN RaisedIn(cycle, "ApiRequestError")
                ELSE [cycle EXCEPT !.step = "write"]
    /\ UNCHANGED <<sched, db, call, out, updater, wallet_obj>>

\* self.storage.write_rates(payload)
CycleWriteRates ==
    /\ sched.pc = "update" /\ cycle.step = "write"
    /\ cycle' = [cycle EXCEPT !.step = "append", !.cache = TRUE]
    /\ UNCHANGED <<sched, db, call, out, updater, wallet_obj>>

\* self.storage.append_history(history_records)
CycleAppendHistory ==
    /\ sched.pc = "update" /\ cycle.step = "append"
    /\ cycle' = [cycle EXCEPT !.step = "return", !.history = TRUE]
    /\ UNCHANGED <<sched, db, call, out, updater, wallet_obj>>

\* run_update returns; the scheduler logs "Update OK"
CycleReturns ==
    /\ sched.pc = "update" /\ cycle.step = "return"
    /\ cycle' = [cycle EXCEPT !.step = "returned"]
    /\ sched' = [sched EXCEPT !.pc = "handled"]
    /\ UNCHANGED <<db, call, out, updater, wallet_obj>>

\* except ApiRequestError / except Exception: logged, the loop goes on
CycleFails ==
    /\ sched.pc = "update" /\ cycle.step = "raised"
    /\ cycle' = [cycle EXCEPT !.step = "failed"]
    /\ sched' = [sched EXCEPT !.pc = "handled"]
    /\ UNCHANGED <<db, call, out, updater, wallet_obj>>

\* sleep_time = max(0, interval_seconds - int(elapsed)): the subtraction
\* is defined for a number and raises TypeError for a RatesUpdater.
ComputeSleep ==
    /\ sched.pc = "handled"
    /\ sched' = IF sched.interval_seconds.kind = "int"
                THEN [sched EXCEPT !.pc = "sleep"]
                ELSE Escaped(sched, "TypeError")
    /\ UNCHANGED <<cycle, db, call, out, updater, wallet_obj>>

\* time.sleep(sleep_time) returns
WakeUp ==
    /\ sched.pc = "sleep"
    /\ sched' = [sched EXCEPT !.pc = "loop"]
    /\ UNCHANGED <<cycle, db, call, out, updater, wallet_obj>>

\* KeyboardInterrupt, raised wherever the loop stands: it is no Exception,
\* so only `except KeyboardInterrupt` around the loop catches it, and the
\* run_update it hit stays where it was.
Interrupt ==
    /\ Looping
    /\ sched' = [sched EXCEPT !.pc = "stopped"]
    /\ UNCHANGED <<cycle, db, call, out, updater, wallet_obj>>

SchedulerStep ==
    \/ RunScheduler
    \/ StartCycle
    \/ NextClient
    \/ AfterClients
    \/ CycleWriteRates
    \/ CycleAppendHistory
    \/ CycleReturns
    \/ CycleFails
    \/ ComputeSleep
    \/ WakeUp

SchedulerNext == SchedulerStep \/ Interrupt

SchedulerSpec == SchedulerInit /\ [][SchedulerNext]_vars

\* The scheduler keeps running unless something stops it: every step of
\* run_scheduler that can be taken is eventually taken; an interrupt may or
\* may not come.
FairSchedulerSpec == SchedulerSpec /\ WF_vars(SchedulerStep)

\* =============================================================== wallet
\* core/models.py: a Wallet, its balance a Python float.

MaxBalance == 4    \* finite balances are 0..MaxBalance

\* The floats that are no finite number.
Inf == [kind |-> "inf", n |-> 0]
NegInf == [kind |-> "-inf", n |-> 0]
NaN == [kind |-> "nan", n |-> 0]

\* isinstance(amount, (int, float))
IsNumber(v) == v.kind \in {"num", "inf", "-inf", "nan"}

\* Comparison and arithmetic as Python floats do them: every comparison
\* with nan is False, inf - inf is nan.
LtZero(a) == a.kind = "-inf" \/ (a.kind = "num" /\ a.n < 0)
LeZero(a) == a.kind = "-inf" \/ (a.kind = "num" /\ a.n <= 0)
Gt(a, b) ==
    CASE a.kind = "nan" \/ b.kind = "nan" -> FALSE
      [] a.kind = "inf" -> b.kind # "inf"
      [] a.kind = "-inf" -> FALSE
      [] b.kind = "inf" -> FALSE
      [] b.kind = "-inf" -> TRUE
      [] OTHER -> a.n > b.n
Plus(a, b) ==
    CASE a.kind = "nan" \/ b.kind = "nan" -> NaN
      [] a.kind = "inf" -> IF b.kind = "-inf" THEN NaN ELSE Inf
      [] a.kind = "-inf" -> IF b.kind = "inf" THEN NaN ELSE NegInf
      [] b.kind \in {"inf", "-inf"} -> b
      [] OTHER -> Num(a.n + b.n)
Negated(a) ==
    CASE a.kind = "inf" -> NegInf
      [] a.kind = "-inf" -> Inf
      [] a.kind = "nan" -> NaN
      [] OTHER -> Num(0 - a.n)
Minus(a, b) == Plus(a, Negated(b))

\* How a call on the wallet ends: the balance it leaves and the exception
\* it raises ("" when it returns).
Ended(balance, raised) == [balance |-> balance, raised |-> raised]

\* _validate_amount: the exception it raises, "" when it returns the amount
_validate_amount(amount) ==
    IF ~IsNumber(amount) THEN "ValueError"
    ELSE IF LeZero(amount) THEN "ValueError"
    ELSE ""

deposit(balance, amount) ==
    IF _validate_amount(amount) # ""
    THEN Ended(balance, _validate_amount(amount))
    ELSE Ended(Plus(balance, amount), "")

withdraw(balance, amount) ==
    IF _validate_amount(amount) # ""
    THEN Ended(balance, _validate_amount(amount))
    ELSE IF Gt(amount, balance) THEN Ended(balance, "InsufficientFundsError")
    ELSE Ended(Minus(balance, amount), "")

\* the balance setter
set_balance(balance, value) ==
    IF ~IsNumber(value) THEN Ended(balance, "ValueError")
    ELSE IF LtZero(value) THEN Ended(balance, "ValueError")
    ELSE Ended(value, "")

\* ------------------------------------------------------------- inputs
\* Amounts a caller passes: finite numbers, inf and nan (float("nan") is
\* what `--amount nan` parses to), and a value that is no number.
Amounts == { Num(-1), Num(0), Num(1), Num(2), Inf, NaN, TextValue }

Within(balance) == balance.kind = "num" => balance.n <= MaxBalance

\* The wallet after a call: what was called with what, on which balance,
\* and how it ended.
After(method, amount, before, ended) ==
    [made |-> TRUE, balance |-> ended.balance, op |-> method,
     amount |-> amount, before |-> before, raised |-> ended.raised]

WalletInit ==
    /\ UpdaterAtRest
    /\ db = NoDb /\ call = NoCall /\ out = NoOut
    /\ sched = NoSched /\ cycle = NoCycle /\ wallet_obj = NoWallet

\* Wallet(code, initial_balance): _balance = 0.0, then the setter; an
\* exception leaves no wallet.
NewWallet ==
    /\ wallet_obj = NoWallet
    /\ \E initial_balance \in Amounts :
         LET ended == set_balance(Num(0), initial_balance)
         IN  /\ ended.raised = ""
             /\ Within(ended.balance)
             /\ wallet_obj' = After("Wallet", initial_balance, Num(0), ended)
    /\ UNCHANGED <<db, call, out, updater, service>>

\* wallet.deposit(amount)
Deposit ==
    /\ wallet_obj.made
    /\ \E amount \in Amounts :
         LET ended == deposit(wallet_obj.balance, amount)
         IN  /\ Within(ended.balance)
             /\ wallet_obj' =
                  After("deposit", amount, wallet_obj.balance, ended)
    /\ UNCHANGED <<db, call, out, updater, service>>

\* wallet.withdraw(amount)
Withdraw ==
    /\ wallet_obj.made
    /\ \E amount \in Amounts :
         wallet_obj' = After("withdraw", amount, wallet_obj.balance,
                             withdraw(wallet_obj.balance, amount))
    /\ UNCHANGED <<db, call, out, updater, service>>

\* wallet.balance = value
SetBalance ==
    /\ wallet_obj.made
    /\ \E value \in Amounts :
         LET ended == set_balance(wallet_obj.balance, value)
         IN  /\ Within(ended.balance)
             /\ wallet_obj' =
                  After("balance", value, wallet_obj.balance, ended)
    /\ UNCHANGED <<db, call, out, updater, service>>

WalletNext == NewWallet \/ Deposit \/ Withdraw \/ SetBalance

WalletSpec == WalletInit /\ [][WalletNext]_vars

\* ================================================================ trade
\* core/usecases.py: buy_currency and sell_currency on portfolios.json and
\* rates.json.

\* a < b, a - b on amounts
Less(a, b) == a[1] * b[2] < b[1] * a[2]
Sub(a, b) == Add(a, Frac(0 - b[1], b[2]))

\* portfolio.get_wallet(code): the wallet's place in the mapping, 0 for None
WalletIndex(wallets, code) ==
    IF \E i \in DOMAIN wallets : wallets[i].currency_code = code
    THEN CHOOSE i \in DOMAIN wallets : wallets[i].currency_code = code
    ELSE 0

\* get_wallet or add_currency, then wallet.deposit(amount_value)
Deposited(wallets, code, amount) ==
    LET i == WalletIndex(wallets, code)
    IN  IF i = 0 THEN Append(wallets, Wallet(code, amount))
        ELSE [wallets EXCEPT ![i].balance = Add(@, amount)]

\* wallet.withdraw(amount_value), when the balance allows it
Withdrawn(wallets, code, amount) ==
    [wallets EXCEPT ![WalletIndex(wallets, code)].balance = Sub(@, amount)]

\* How a buy or sell ended: status is "ok" or the exception's type, files
\* the data files it leaves.
Trade(status, what, files) ==
    [status |-> status, what |-> what, files |-> files]

\* _save_portfolio, then _load_exchange_rates and the estimate
SavedThenValued(files, wallets) ==
    LET saved == [files EXCEPT !.portfolios = PortfolioOf(wallets)]
        loaded == _load_exchange_rates(saved.rates)
    IN  IF loaded.raises # "" THEN Trade("ValueError", loaded.raises, saved)
        ELSE Trade("ok", "", saved)

buy_currency(currency_code, amount, files) ==
    IF amount[1] <= 0 THEN Trade("ValueError", "amount", files)
    ELSE IF get_currency(currency_code) = ""
    THEN Trade("CurrencyNotFoundError", "", files)
    ELSE IF ~files.portfolios.found
    THEN Trade("ValueError", "no portfolio", files)
    ELSE SavedThenValued(files,
            Deposited(files.portfolios.wallets,
                      get_currency(currency_code), amount))

sell_currency(currency_code, amount, files) ==
    IF amount[1] <= 0 THEN Trade("ValueError", "amount", files)
    ELSE IF get_currency(currency_code) = ""
    THEN Trade("CurrencyNotFoundError", "", files)
    ELSE IF ~files.portfolios.found
    THEN Trade("ValueError", "no portfolio", files)
    ELSE LET code == get_currency(currency_code)
             wallets == files.portfolios.wallets
             i == WalletIndex(wallets, code)
         IN  IF i = 0 THEN Trade("ValueError", "no wallet", files)
             ELSE IF Less(wallets[i].balance, amount)
             THEN Trade("InsufficientFundsError", "", files)
             ELSE SavedThenValued(files, Withdrawn(wallets, code, amount))

\* ------------------------------------------------------------- inputs
TradeAmounts == { Whole(-1), Whole(0), Whole(1), Whole(2) }
TradeDb ==
    { [rates |-> d, portfolios |-> p] :
        d \in ValuedRates,
        p \in {NoPortfolio} \cup { PortfolioOf(w) : w \in WalletSeqs } }

TradeInit ==
    /\ UpdaterAtRest
    /\ sched = NoSched /\ cycle = NoCycle /\ wallet_obj = NoWallet
    /\ db \in TradeDb
    /\ call = NoCall /\ out = NoOut

BuyCurrency ==
    /\ call = NoCall
    /\ \E currency_code \in CodeArgs, amount \in TradeAmounts :
          LET traded == buy_currency(currency_code, amount, db)
          IN  /\ call' = [op |-> "buy_currency",
                          currency_code |-> currency_code,
                          amount |-> amount, before |-> db]
              /\ db' = traded.files
              /\ out' = [status |-> traded.status, what |-> traded.what]
    /\ UNCHANGED <<updater, service, wallet_obj>>

SellCurrency ==
    /\ call = NoCall
    /\ \E currency_code \in CodeArgs, amount \in TradeAmounts :
          LET traded == sell_currency(currency_code, amount, db)
          IN  /\ call' = [op |-> "sell_currency",
                          currency_code |-> currency_code,
                          amount |-> amount, before |-> db]
              /\ db' = traded.files
              /\ out' = [status |-> traded.status, what |-> traded.what]
    /\ UNCHANGED <<updater, service, wallet_obj>>

TradeNext == BuyCurrency \/ SellCurrency

TradeSpec == TradeInit /\ [][TradeNext]_vars

\* ================================================================ claims
\* What the claims speak of, read off the files and the record of the
\* fetch_rates calls.
Done(o) == pc = "idle" /\ result.op = o
StoredIn(files) == ExistingPairs(read_rates(files[RatesPath]))
HistoryIn(files) == _read_history(files[HistoryPath])
Instant(entry) == parse_iso_datetime(entry.updated_at)
EventsWith(outcome) == { i \in 1..Len(trace) : trace[i].outcome = outcome }
SelectedClients == { i \in 1..Len(Clients) : Selected(active, Clients[i]) }
RECURSIVE QuotesReturned(_)
QuotesReturned(i) ==
    IF i = 0 THEN 0 ELSE Cardinality(trace[i].pairs) + QuotesReturned(i - 1)
\* The quote of the last client that reported the pair in this cycle.
Reported(p) == { i \in EventsWith("ok") : p \in trace[i].pairs }
LastReport(p) == CHOOSE i \in Reported(p) : \A j \in Reported(p) : j <= i
QuoteOf(i) == Entry(trace[i].rate, NowIso(trace[i].at), Clients[trace[i].client])

\* C1: when every selected source raised ApiRequestError, run_update raises
\* ApiRequestError and every file is as it was when the call started.
C1_TotalFailurePreservesFiles ==
    ( /\ Done("run_update")
      /\ Len(trace) = Cardinality(SelectedClients)
      /\ EventsWith("ApiRequestError") = 1..Len(trace) )
    => /\ result.status = "ApiRequestError"
       /\ fs = pre
C1_Witness ==
    /\ Done("run_update")
    /\ Len(trace) = 2 /\ EventsWith("ApiRequestError") = {1, 2}
    /\ result.status = "ApiRequestError"
    /\ fs = pre
    /\ StoredIn(pre) # EmptyPairs /\ HistoryIn(pre) # <<>>

\* C2 (as claimed): a run_update in which some selected source returned
\* quotes returns normally with the cache persisted, one error per source
\* that raised ApiRequestError, every selected source called, and
\* total_rates the number of quotes returned.
C2_PartialFailureTolerated ==
    (Done("run_update") /\ EventsWith("ok") # {})
    => /\ result.status = "ok"
       /\ fs[RatesPath] = FileOf(result.arg, "complete")
       /\ Len(result.errors) = Cardinality(EventsWith("ApiRequestError"))
       /\ Len(trace) = Cardinality(SelectedClients)
       /\ result.total_rates = QuotesReturned(Len(trace))

\* C3: while run_update runs, no step lowers the updated_at of a stored
\* pair or drops the pair, and a stored quote changes only to one whose
\* updated_at is strictly later.
C3_MonotonicMerge ==
    [][op = "run_update" =>
         \A p \in DOMAIN StoredIn(fs) :
            /\ p \in DOMAIN StoredIn(fs')
            /\ Instant(StoredIn(fs')[p]) >= Instant(StoredIn(fs)[p])
            /\ StoredIn(fs')[p] # StoredIn(fs)[p]
                  => Instant(StoredIn(fs')[p]) > Instant(StoredIn(fs)[p])]_vars
\* A candidate as old as the stored quote, under another spelling of the
\* same instant, was discarded by a run that wrote the cache.
C3_Witness ==
    /\ Done("run_update") /\ result.status = "ok"
    /\ "BTC_USD" \in DOMAIN StoredIn(pre)
    /\ Reported("BTC_USD") # {}
    /\ Instant(QuoteOf(LastReport("BTC_USD"))) = Instant(StoredIn(pre)["BTC_USD"])
    /\ StoredIn(pre)["BTC_USD"].updated_at.tz = "naive"
    /\ StoredIn(fs)["BTC_USD"] = StoredIn(pre)["BTC_USD"]
    /\ fs[RatesPath] # pre[RatesPath]

\* C4 (as claimed): a reported pair whose stored quote has a missing or
\* unparseable updated_at keeps that stored quote.
C4_UnknownRecencyDiscards ==
    (Done("run_update") /\ result.status = "ok")
    => \A p \in DOMAIN StoredIn(pre) :
          (Reported(p) # {} /\ Instant(StoredIn(pre)[p]) = NoTime)
          => StoredIn(fs)[p] = StoredIn(pre)[p]
\* C4 (amended): is_newer discards a candidate whose updated_at is missing
\* or unparseable; a candidate stamped by run_update replaces a stored
\* quote whose updated_at is missing or unparseable.
C4_UnknownRecency ==
    /\ \A u \in {NoneTs, BadTs}, v \in TsValues :
          ~is_newer(Entry(1, u, "coingecko"), Entry(1, v, "coingecko"))
    /\ (Done("run_update") /\ result.status = "ok")
       => \A p \in DOMAIN StoredIn(pre) :
             (Reported(p) # {} /\ Instant(StoredIn(pre)[p]) = NoTime)
             => StoredIn(fs)[p] = QuoteOf(LastReport(p))
C4_Witness ==
    /\ Done("run_update") /\ result.status = "ok"
    /\ "BTC_USD" \in DOMAIN StoredIn(pre)
    /\ StoredIn(pre)["BTC_USD"].updated_at = BadTs
    /\ Reported("BTC_USD") # {}
    /\ StoredIn(fs)["BTC_USD"] = QuoteOf(LastReport("BTC_USD"))
    /\ StoredIn(fs)["BTC_USD"] # StoredIn(pre)["BTC_USD"]

\* C5 (as claimed): when two sources report the same pair in one cycle and
\* one of the two quotes is stamped later, the cache does not end up with
\* the earlier-stamped one.
C5_NewerOfTwoWins ==
    (Done("run_update") /\ result.status = "ok")
    => \A p \in Pairs : \A i, j \in Reported(p) :
          Instant(QuoteOf(i)) < Instant(QuoteOf(j))
          => StoredIn(fs)[p] # QuoteOf(i)

\* C6: a run_update that returns has extended the history by total_rates
\* records, one for each quote a source returned, with the quote's pair,
\* rate and source.
NewRecords ==
    SubSeq(HistoryIn(fs), Len(HistoryIn(pre)) + 1, Len(HistoryIn(fs)))
QuoteKeys == { <<i, p>> \in (1..Len(trace)) \X Pairs : p \in trace[i].pairs }
KeyOfQuote(k) == <<SplitPair(k[2]), trace[k[1]].rate, Clients[trace[k[1]].client]>>
KeyOfRecord(r) == <<<<r.from_currency, r.to_currency>>, r.rate, r.source>>
C6_HistoryLogsEveryQuote ==
    (Done("run_update") /\ result.status = "ok")
    => /\ Len(HistoryIn(fs)) = Len(HistoryIn(pre)) + result.total_rates
       /\ result.total_rates = Cardinality(QuoteKeys)
       /\ \A k \in QuoteKeys :
             Cardinality({ n \in 1..Len(NewRecords) :
                             KeyOfRecord(NewRecords[n]) = KeyOfQuote(k) })
             = Cardinality({ q \in QuoteKeys : KeyOfQuote(q) = KeyOfQuote(k) })
\* Both sources reported BTC_USD; the first one's quote is in the history
\* and not in the cache.
C6_Witness ==
    /\ Done("run_update") /\ result.status = "ok"
    /\ result.total_rates = 2 /\ Len(NewRecords) = 2
    /\ Reported("BTC_USD") = {1, 2}
    /\ NewRecords[1].source = "coingecko"
    /\ StoredIn(fs)["BTC_USD"].source # "coingecko"

\* C7: every step leaves the history that was stored as a prefix of the
\* history that is stored.
C7_HistoryAppendOnly ==
    [][ /\ Len(HistoryIn(fs)) <= Len(HistoryIn(fs'))
        /\ SubSeq(HistoryIn(fs'), 1, Len(HistoryIn(fs))) = HistoryIn(fs) ]_vars
C7_Witness ==
    /\ Done("append_history") /\ result.status = "ok"
    /\ HistoryIn(pre) # <<>>
    /\ Len(HistoryIn(fs)) = Len(HistoryIn(pre)) + 1

\* C8: at every step, also after the writer was killed, the cache file
\* holds what it held when the call started or the complete new content.
Written == IF pc = "idle" THEN result.arg ELSE payload
C8_AtomicWrite ==
    \/ fs[RatesPath] = pre[RatesPath]
    \/ fs[RatesPath] = FileOf(Written, "complete")
C8_Witness ==
    /\ pc = "dead" /\ op = "write_rates"
    /\ fs[TmpPath(RatesPath)].exists
    /\ fs[TmpPath(RatesPath)].text = "partial"
    /\ fs[TmpPath(RatesPath)].doc = payload
    /\ fs[RatesPath] = pre[RatesPath]
    /\ StoredIn(fs) # EmptyPairs /\ payload # read_rates(fs[RatesPath])

\* C9: read_rates() right after write_rates(c) returns c.
C9_WriteReadRoundTrip ==
    ( /\ Done("read_rates")
      /\ prev.op = "write_rates" /\ prev.status = "ok" )
    => result.value = prev.arg
C9_Witness ==
    /\ Done("read_rates")
    /\ prev.op = "write_rates" /\ prev.status = "ok"
    /\ prev.arg.pairs # EmptyPairs
    /\ result.value = prev.arg

\* C10 (as claimed): read_rates gives the empty cache for a file that is
\* absent, unparseable or not a cache object with a pairs mapping, and
\* run_update does not fail on what the cache file holds.
Malformed(file) ==
    \/ ~file.exists
    \/ file.text # "complete"
    \/ file.doc.kind # "object"
    \/ file.doc.pk # "dict"
C10_CorruptCacheIsEmpty ==
    /\ (Done("read_rates") /\ Malformed(pre[RatesPath]))
       => result.value = EmptyCache
    /\ Done("run_update") => result.status # "AttributeError"

\* C29 (as claimed): whenever no run_update is executing, also after one
\* was cut off, every quote that run_update put into the cache has a
\* history record with the same pair, rate and source.
NotExecuting == pc \in {"idle", "dead"}
LastWasUpdate ==
    \/ pc = "idle" /\ result.op = "run_update"
    \/ pc = "dead" /\ op = "run_update"
\* The pairs whose stored quote is not the one stored when the call started.
StoredByRun ==
    { p \in DOMAIN StoredIn(fs) :
        p \notin DOMAIN StoredIn(pre) \/ StoredIn(fs)[p] # StoredIn(pre)[p] }
Logged(p) ==
    \E n \in 1..Len(HistoryIn(fs)) :
        KeyOfRecord(HistoryIn(fs)[n])
        = <<SplitPair(p), StoredIn(fs)[p].rate, StoredIn(fs)[p].source>>
C29_CacheAndHistoryConsistent ==
    (NotExecuting /\ LastWasUpdate) => \A p \in StoredByRun : Logged(p)

CacheRead == db_read_rates(db.rates)
Called(o) == call.op = o
\* A get_exchange_rate call with two different known codes.
Converting ==
    /\ Called("get_exchange_rate")
    /\ get_currency(call.from_code) # "" /\ get_currency(call.to_code) # ""
    /\ get_currency(call.from_code) # get_currency(call.to_code)
Age == out.clock - parse_iso_datetime(CacheRead.last_refresh)
WasFresh ==
    /\ CacheRead.last_refresh.kind = "iso"
    /\ Age <= RATES_TTL_SECONDS
RefreshFails == _refresh_rates_cache(CacheRead).raises # ""
HoldsNoPairs(d) == RawPairs(d) = <<>>

\* C11: a get_exchange_rate call with different codes that returns carries
\* stale = true exactly when the cache was not fresh and the refresh
\* failed, and then a warning; when the cache was fresh no refresh was
\* attempted, and stale is false without a warning.
C11_StaleExactlyOnFailedRefresh ==
    (Converting /\ out.status = "ok")
    => /\ out.stale <=> (~WasFresh /\ RefreshFails)
       /\ out.stale => out.warning # ""
       /\ ~out.stale => out.warning = ""
       /\ WasFresh => ~out.refreshed
C11_Witness ==
    /\ Converting /\ out.status = "ok"
    /\ CacheRead.last_refresh.kind = "iso" /\ Age > RATES_TTL_SECONDS
    /\ out.stale /\ out.warning # "" /\ out.refreshed
    /\ out.rate = Whole(2)

\* C12 (as claimed): with different codes, a cache that is not fresh and
\* holds no pairs, and a refresh that fails, the call raises the refresh's
\* ApiRequestError.
C12_EmptyCachePropagatesRefreshError ==
    ( /\ Converting /\ CacheRead.kind = "dict"
      /\ ~WasFresh /\ RefreshFails /\ HoldsNoPairs(CacheRead) )
    => out.status = "ApiRequestError"

\* C13 (as claimed): get_exchange_rate(c, c) returns rate 1 and stale
\* false without reading the cache or refreshing it, and
\* _calc_base_conversion of an amount from c to c yields the amount,
\* whatever the table.
C13_SameCurrencyIsIdentity ==
    /\ ( /\ Called("get_exchange_rate")
         /\ get_currency(call.from_code) # ""
         /\ get_currency(call.from_code) = get_currency(call.to_code) )
       => /\ out.status = "ok" /\ out.rate = Whole(1) /\ ~out.stale
          /\ ~out.read /\ ~out.refreshed
    /\ ( /\ Called("_calc_base_conversion")
         /\ Normalized(call.base_currency) = call.currency_code )
       => out.calc.estimated_value_base = call.amount

\* C14: _is_rates_fresh is false when last_refresh is missing or does not
\* parse, and otherwise true exactly when now - last_refresh is at most
\* RATES_TTL_SECONDS; get_exchange_rate attempts a refresh exactly when the
\* cache it read is not fresh.
C14_FreshWithinTtl ==
    /\ Called("_is_rates_fresh")
       => (out.fresh <=>
             /\ CacheRead.last_refresh.kind = "iso"
             /\ call.now - CacheRead.last_refresh.t <= RATES_TTL_SECONDS)
    /\ (Converting /\ CacheRead.kind = "dict")
       => (out.refreshed <=> ~WasFresh)
C14_Witness ==
    /\ Called("_is_rates_fresh")
    /\ CacheRead.last_refresh.kind = "iso"
    /\ call.now - CacheRead.last_refresh.t = RATES_TTL_SECONDS
    /\ out.fresh

\* C15 (as claimed): the table _build_usd_rates returns maps USD to 1.
C15_UsdIsOne ==
    Called("_build_usd_rates")
    => /\ "USD" \in DOMAIN out.table
       /\ out.table["USD"] = Whole(1)

\* C16: the table _build_usd_rates returns holds USD and the codes that
\* the pairs of the cache give a rate: FROM at the rate of a pair FROM_USD,
\* TO at 1/rate of a pair USD_TO whose rate is not 0, the later pair
\* deciding when two give the same code; and no other code.  A rate is
\* numeric when it is a number or spells one.
SpellsNumber(v) == v.kind = "num" \/ v.kind = "numtext"
Gives(item) ==
    /\ item.info.isdict /\ item.info.hasrate /\ SpellsNumber(item.info.rate)
    /\ SplitUpper(item.pair) # <<>>
    /\ \/ SplitUpper(item.pair)[2] = "USD"
       \/ SplitUpper(item.pair)[1] = "USD" /\ item.info.rate.n # 0
CodeGiven(item) ==
    IF SplitUpper(item.pair)[2] = "USD"
    THEN SplitUpper(item.pair)[1] ELSE SplitUpper(item.pair)[2]
RateGiven(item) ==
    IF SplitUpper(item.pair)[2] = "USD"
    THEN Frac(item.info.rate.n, 1) ELSE Frac(1, item.info.rate.n)
Giving(raw, c) == { i \in 1..Len(raw) : Gives(raw[i]) /\ CodeGiven(raw[i]) = c }
LastOf(indices) == CHOOSE i \in indices : \A j \in indices : j <= i
C16_TableFromPairs ==
    Called("_build_usd_rates")
    => LET raw == RawPairs(CacheRead)
       IN  /\ DOMAIN out.table =
                {"USD"} \cup { CodeGiven(raw[i]) :
                                 i \in { j \in 1..Len(raw) : Gives(raw[j]) } }
           /\ \A c \in DOMAIN out.table :
                 IF Giving(raw, c) = {} THEN out.table[c] = Frac(1, 1)
                 ELSE out.table[c] = RateGiven(raw[LastOf(Giving(raw, c))])
\* EUR_USD and then USD_EUR: the table holds EUR at 1/rate of the second.
C16_Witness ==
    /\ Called("_build_usd_rates")
    /\ Len(RawPairs(CacheRead)) = 2
    /\ Giving(RawPairs(CacheRead), "EUR") = {1, 2}
    /\ RawPairs(CacheRead)[2].pair = "USD_EUR"
    /\ out.table["EUR"] = Frac(1, 3)

\* C17 (as claimed): a get_exchange_rate call with different codes that
\* gets to the table returns rate = table[from] / table[to] when the table
\* holds both codes, and otherwise fails with a ValueError naming a
\* missing code.
ReachesTable ==
    /\ Converting /\ CacheRead.kind = "dict"
    /\ out.status # "ApiRequestError"
TableRead == _build_usd_rates(CacheRead)
From == get_currency(call.from_code)
To == get_currency(call.to_code)
C17_RateIsQuotient ==
    ReachesTable
    => IF From \in DOMAIN TableRead /\ To \in DOMAIN TableRead
       THEN /\ out.status = "ok"
            /\ ~IsZero(TableRead[To])
            /\ out.rate = Div(TableRead[From], TableRead[To])
       ELSE /\ out.status = "ValueError"
            /\ out.names \in {From, To} \ DOMAIN TableRead
\* C17 (amended): as C17, and when the table holds both codes with
\* table[to] = 0 the call fails with a ValueError naming to.
C17_RateIsQuotientUnlessZero ==
    ReachesTable
    => IF From \notin DOMAIN TableRead
       THEN out.status = "ValueError" /\ out.names = From
       ELSE IF To \notin DOMAIN TableRead
       THEN out.status = "ValueError" /\ out.names = To
       ELSE IF IsZero(TableRead[To])
       THEN out.status = "ValueError" /\ out.names = To
       ELSE /\ out.status = "ok"
            /\ out.rate = Div(TableRead[From], TableRead[To])
C17_Witness ==
    /\ ReachesTable /\ From = "EUR" /\ To = "BTC"
    /\ {"EUR", "BTC"} \subseteq DOMAIN TableRead
    /\ TableRead["EUR"] = Whole(2) /\ TableRead["BTC"] = Whole(3)
    /\ out.status = "ok" /\ out.rate = Frac(2, 3)

\* What show_portfolio is asked to value, and in which base.
Valuing ==
    /\ Called("show_portfolio") /\ db.portfolios.found
    /\ CacheRead.kind = "dict"
Held == db.portfolios.wallets
Base ==
    Normalized(IF call.base_currency = "" THEN "USD" ELSE call.base_currency)
Convertible(wallet) ==
    /\ wallet.currency_code \in DOMAIN TableRead
    /\ Base \in DOMAIN TableRead
    /\ Base = "USD" \/ ~IsZero(TableRead[Base])

\* C18: show_portfolio is all or nothing: a report it returns lists every
\* wallet, each converted with the rates of the table and none at a
\* substituted 0; when some wallet cannot be converted the call fails and
\* returns no list and no total.
C18_AllOrNothing ==
    /\ (Called("show_portfolio") /\ out.status = "ok")
       => /\ Valuing
          /\ Len(out.wallets) = Len(Held)
          /\ \A i \in 1..Len(Held) :
                /\ Convertible(Held[i])
                /\ out.wallets[i].currency_code = Held[i].currency_code
                /\ IsZero(out.wallets[i].value_in_base)
                   => IsZero(Mul(Held[i].balance,
                                 TableRead[Held[i].currency_code]))
    /\ (Valuing /\ \E i \in 1..Len(Held) : ~Convertible(Held[i]))
       => /\ out.status # "ok"
          /\ out.wallets = <<>> /\ out.total_in_base = NoFrac
\* Two wallets, one with a rate and one without: the call fails.
C18_Witness ==
    /\ Valuing /\ Len(Held) = 2
    /\ Convertible(Held[1]) /\ ~Convertible(Held[2])
    /\ out.status = "ValueError" /\ out.names = Held[2].currency_code
    /\ out.wallets = <<>>

RECURSIVE SumOfValues(_, _)
SumOfValues(infos, i) ==
    IF i = 0 THEN Whole(0)
    ELSE Add(SumOfValues(infos, i - 1), infos[i].value_in_base)

\* C19 (as claimed): in a report show_portfolio returns, total_in_base is
\* the sum of the wallets' value_in_base, and each value_in_base is
\* balance * table[code] / table[base].
C19_TotalIsSumOfValues ==
    (Valuing /\ out.status = "ok")
    => /\ out.total_in_base = SumOfValues(out.wallets, Len(out.wallets))
       /\ \A i \in 1..Len(Held) :
             /\ ~IsZero(TableRead[Base])
             /\ out.wallets[i].value_in_base =
                   Div(Mul(Held[i].balance, TableRead[Held[i].currency_code]),
                       TableRead[Base])

\* C20 (as claimed): for a user without wallets show_portfolio returns an
\* empty wallet list and total_in_base = 0, whatever the cache and the
\* base currency.
C20_EmptyPortfolioIsZero ==
    (Called("show_portfolio") /\ db.portfolios.found /\ Held = <<>>)
    => /\ out.status = "ok"
       /\ out.wallets = <<>>
       /\ out.total_in_base = Whole(0)

\* -------------------------------------------------- the clients' claims
\* C24 (as claimed): a fetch_rates call returns a mapping that is not empty
\* or raises ApiRequestError, whatever the network, the response and the
\* configuration.
C24_FetchReturnsOrApiRequestError ==
    Called("fetch_rates")
    => \/ out.raises = "" /\ out.rates # EmptyPairs
       \/ out.raises = "ApiRequestError"

\* C25 (as claimed): every quote in the cache run_update has written has
\* rate > 0, whatever the providers report.
C25_StoredRatesPositive ==
    (Called("run_update") /\ out.status = "ok")
    => \A pair \in DOMAIN out.stored : out.stored[pair].rate[1] > 0

\* ------------------------------------------------ the scheduler's claims
CycleStarts == cycle' = FirstClient /\ cycle' # cycle
CycleOver == cycle.step \in {"none", "returned", "failed"}
CycleFailed == sched.pc = "handled" /\ cycle.step = "failed"
GoesOn == sched.pc \in {"update", "stopped"}

\* C21: the scheduler runs its cycles one after another, a run_update
\* starting only once the previous one has returned or raised, and after a
\* cycle that failed the scheduler, unless it is interrupted, eventually
\* starts the next cycle.
C21_CyclesFollowOneAnother ==
    /\ [][CycleStarts => CycleOver]_vars
    /\ CycleFailed ~> GoesOn

\* C22: when the interrupt has stopped the scheduler, the run_update it
\* arrived in has persisted the cache and the history both, or neither.
C22_InterruptedUpdateIsWhole ==
    (sched.pc = "stopped" /\ cycle.step # "none")
        => (cycle.cache <=> cycle.history)

NamedSources ==
    { _normalize_source(name) : name \in Names(sched.active_sources) }

\* C23: run_scheduler calls fetch_rates only on the sources named in
\* active_sources (on all of them when none is named), and a name that
\* matches no configured source is skipped without raising an error.
C23_UnknownNameIsSkipped ==
    sched.pc # "off" =>
        /\ cycle.step # "none" =>
              \A i \in DOMAIN cycle.fetched :
                  \/ sched.active_sources = NoSources
                  \/ cycle.fetched[i] \in NamedSources
        /\ ~(sched.pc = "raised" /\ sched.exc = "KeyError")

\* C28: within one cycle each source is fetched at most once (so its
\* quotes are counted and logged once), whatever list of clients the
\* scheduler has built.
C28_EachSourceFetchedOnce ==
    cycle.step # "none" =>
        \A i, j \in DOMAIN cycle.fetched :
            cycle.fetched[i] = cycle.fetched[j] => i = j

\* --------------------------------------------------- the wallet's claim
NonNegative(balance) ==
    balance.kind = "inf" \/ (balance.kind = "num" /\ balance.n >= 0)

\* C26: a wallet's balance is never negative (it is >= 0 after every
\* deposit, withdraw and balance assignment); a withdraw of more than the
\* balance raises InsufficientFundsError and a deposit or withdraw of a
\* non-positive amount raises ValueError, the balance staying as it was.
C26_BalanceNeverNegative ==
    wallet_obj.made =>
        /\ NonNegative(wallet_obj.balance)
        /\ (wallet_obj.op = "withdraw" /\ IsNumber(wallet_obj.amount)
              /\ ~LeZero(wallet_obj.amount)
              /\ Gt(wallet_obj.amount, wallet_obj.before))
             => /\ wallet_obj.raised = "InsufficientFundsError"
                /\ wallet_obj.balance = wallet_obj.before
        /\ (wallet_obj.op \in {"deposit", "withdraw"}
              /\ IsNumber(wallet_obj.amount) /\ LeZero(wallet_obj.amount))
             => /\ wallet_obj.raised = "ValueError"
                /\ wallet_obj.balance = wallet_obj.before

\* ---------------------------------------------------- the trades' claim
\* C27: a buy_currency or sell_currency that raises an error has left the
\* persisted portfolio as it was: no stored wallet balance is modified.
C27_FailedTradeChangesNothing ==
    ((Called("buy_currency") \/ Called("sell_currency"))
        /\ out.status # "ok")
        => db.portfolios = call.before.portfolios


====
